---------------------------- MODULE Spec2Model ----------------------------
(***************************************************************************)
(* Model of the headline typesetting core of r10insta: the line wrapper,   *)
(* the headline shorteners, the text normalizer and the emphasis selector  *)
(* of src/server.js, src/unnamed/part_001 and src/unnamed/part_000.        *)
(*                                                                         *)
(* Texts are TLA+ strings; a character is a string of length 1.  Pixel     *)
(* widths are kept exact by counting in hundredths of a pixel.             *)
(***************************************************************************)
EXTENDS Integers, Sequences, FiniteSets, TLC

VARIABLES
    pc,          \* position of the modelled call: "start", then "done"
    wordsArr,    \* wrapWordsToWidth: the input word list
    boldStart,   \* wrapWordsToWidth: first emphasized word index (0-based)
    boldLength,  \* wrapWordsToWidth: number of emphasized words
    maxWidth,    \* wrapWordsToWidth: width budget, hundredths of a pixel
    maxLines,    \* wrapWordsToWidth: line cap
    built,       \* wrapWordsToWidth: the returned lines
    title,       \* shorteners: the headline passed in
    oracle,      \* shorteners: outcome of the text-generation request
    shortener,   \* shorteners: the function that produced the result
    shortened,   \* shorteners: the returned headline
    again,       \* normalizer: the result of normalizing the returned text
    destaque,    \* card request: the caller's emphasis (destaquePersonalizado)
    reply,       \* title oracle: what the request to the oracle came to
    threw,       \* title oracle: optimizeTitle ended in an exception
    groqHL,      \* emphasis oracle: what generateGroqHighlight returned
    categoria,   \* card: the category of the request, a JavaScript value
    cardType,    \* card: the type of the request ('card', 'story' or absent)
    barColor,    \* card: the resolved color of the tag bar, a JavaScript value
    dimensions,  \* card: <<width, height>> of the canvas
    useManualTitle,  \* route: the useManualTitle field, a JavaScript value
    optimizeCalls,   \* route: how many times optimizeTitle was called
    captionReply,    \* route: what the request for the caption came to
    caption,         \* route: the caption of the response
    chapeuReply,     \* tag oracle: what the request for the tag came to
    chapeu,          \* tag oracle: the tag generateChapeu returned
    publicityFile,   \* sponsor card: what publicity-card.jpg holds
    requests,        \* sponsor card: the requests in flight, each at its await
    cardRequest,     \* card request: the route, the file that serves it and the caller's tag
    oracleCalls,     \* card request: requests sent to the oracle so far, by stage
    now,             \* publishing: the value Date.now() returns
    publishers,      \* publishing: the requests in flight, each at its await
    diskFiles,       \* publishing: the files on disk, each with the request that wrote it
    timers,          \* publishing: the deferred deletions scheduled and not yet run
    graphLog         \* publishing: the Graph API requests sent so far, by request

wrapVars == <<wordsArr, boldStart, boldLength, maxWidth, maxLines, built>>

shortenVars == <<title, oracle, shortener, shortened, again>>

oracleVars == <<reply, threw, groqHL>>

colorVars == <<categoria, cardType, barColor, dimensions>>

routeVars == <<useManualTitle, optimizeCalls, captionReply, caption>>

tagVars == <<chapeuReply, chapeu>>

publicityVars == <<publicityFile, requests>>

stageVars == <<cardRequest, oracleCalls>>

publishVars == <<now, publishers, diskFiles, timers, graphLog>>

cardVars == <<destaque, oracleVars, colorVars, routeVars, tagVars, publicityVars,
             stageVars,
             publishVars>>

vars == <<pc, wrapVars, shortenVars, cardVars>>

\* destaquePersonalizado absent
NoDestaque == [kind |-> "none", inicio |-> 0, fim |-> 0, text |-> ""]

\* no request made to the oracle
NoReply == [kind |-> "none", content |-> ""]

\* JavaScript values: undefined, strings, and the functions and objects
\* an object inherits from Object.prototype
JsUndefined == [type |-> "undefined", text |-> ""]
JsString(s) == [type |-> "string", text |-> s]
JsFunction(name) == [type |-> "function", text |-> name]
JsObject(name) == [type |-> "object", text |-> name]

DestaqueIdle == destaque = NoDestaque

\* generateGroqHighlight returned null
NullHighlight == [null |-> TRUE, boldStart |-> -1, boldLength |-> 0]

OracleIdle == reply = NoReply /\ threw = FALSE /\ groqHL = NullHighlight

ColorIdle ==
    /\ categoria = JsUndefined /\ cardType = JsUndefined
    /\ barColor = JsUndefined /\ dimensions = <<0, 0>>

RouteIdle ==
    /\ useManualTitle = JsUndefined /\ optimizeCalls = 0
    /\ captionReply = NoReply /\ caption = ""

TagIdle == chapeuReply = NoReply /\ chapeu = ""

\* publicity-card.jpg is not in the persistent directory
NoFile == [kind |-> "absent", from |-> 0]

\* no file in the persistent directory and no request in flight
PublicityIdle == publicityFile = NoFile /\ requests = <<>>

\* a card request that has not arrived
NoCardRequest == [file |-> "none", route |-> "none", layoutType |-> "none",
                  chapeuPersonalizado |-> JsUndefined]

NoCalls == [title |-> 0, tag |-> 0, caption |-> 0, highlight |-> 0]

StageIdle == cardRequest = NoCardRequest /\ oracleCalls = NoCalls

\* no request to publish has come in, and nothing is on disk
PublishIdle ==
    /\ now = 0
    /\ publishers = <<>>
    /\ diskFiles = {}
    /\ timers = {}
    /\ graphLog = <<>>

\* the card request's fields when the modelled call is not a card request
CardIdle ==
    /\ DestaqueIdle /\ OracleIdle /\ ColorIdle /\ RouteIdle
    /\ TagIdle /\ PublicityIdle
    /\ StageIdle
    /\ PublishIdle

-----------------------------------------------------------------------------
(* Sequence helpers mirroring the JavaScript array methods the code uses.  *)

\* arr.pop(): the array without its last element
Pop(s) == SubSeq(s, 1, Len(s) - 1)

\* the element arr.pop() returns
Last(s) == s[Len(s)]

\* arr.unshift(x)
Unshift(s, x) == <<x>> \o s

RECURSIVE Flatten(_)
Flatten(ls) == IF ls = <<>> THEN <<>> ELSE Head(ls) \o Flatten(Tail(ls))

-----------------------------------------------------------------------------
(* Strings.  TLC keeps only ASCII strings intact in its states, so every   *)
(* non-ASCII character of the texts is written with an ASCII character     *)
(* that occurs in no text of the module in its own right:                  *)
(*     ~  U+2026 ellipsis          {  e acute (U+00E9)   *  o acute        *)
(*     =  U+2014 em dash           }  E acute (U+00C9)   %  u acute        *)
(*     +  U+2013 en dash           @  a acute            ^  a circumflex   *)
(*     |  U+0301 combining acute   $  a tilde            ]  o tilde        *)
(*     #  c cedilla                /  i acute                              *)
(* Like the characters they stand for, none of them is \w, \s, a quote or  *)
(* punctuation the code names.  "Jos{" reads Jose with an acute accent,    *)
(* "sa%de" reads saude with one.  The one exception is the "#" that opens  *)
(* a color code such as "#dc2626", which is the number sign itself.        *)

ELLIPSIS == "~"
EM_DASH == "="
EN_DASH == "+"
COMBINING_ACUTE == "|"
e_acute == "{"
E_ACUTE == "}"
a_acute == "@"
a_circumflex == "^"
a_tilde == "$"
o_acute == "*"
u_acute == "%"
i_acute == "/"
o_tilde == "]"
c_cedilla == "#"

Min(a, b) == IF a < b THEN a ELSE b
Max(a, b) == IF a > b THEN a ELSE b

\* s[i] with i counted from 1; "" outside the string (JavaScript: undefined)
CharAt(s, i) == IF i >= 1 /\ i <= Len(s) THEN SubSeq(s, i, i) ELSE ""

CharsOf(s) == {SubSeq(s, i, i) : i \in 1 .. Len(s)}

\* String.prototype.slice / substring for 0 <= a: characters a .. b-1
\* (0-based), clipped to the string
Slice(s, a, b) == SubSeq(s, a + 1, Min(b, Len(s)))

Drop(s, n) == SubSeq(s, n + 1, Len(s))

StartsWithAt(s, i, p) ==
    /\ i + Len(p) - 1 <= Len(s)
    /\ SubSeq(s, i, i + Len(p) - 1) = p

\* The least element of S that is at least i, 0 if there is none
MinFrom(S, i) ==
    LET T == {j \in S : j >= i}
    IN  IF T = {} THEN 0 ELSE CHOOSE j \in T : \A k \in T : j <= k

\* The least j in a .. b with P(j), 0 if there is none
FirstIndex(P(_), a, b) == MinFrom({j \in a .. b : P(j)}, a)

\* The greatest j in a .. b with P(j), 0 if there is none
LastIndex(P(_), a, b) ==
    LET T == {j \in a .. b : P(j)}
    IN  IF T = {} THEN 0 ELSE CHOOSE j \in T : \A k \in T : j >= k

\* String.prototype.indexOf(p, i - 1), 1-based; 0 when absent
IndexFrom(s, p, i) ==
    FirstIndex(LAMBDA j : SubSeq(s, j, j + Len(p) - 1) = p, i, Len(s) - Len(p) + 1)

IndexOf(s, p) == IndexFrom(s, p, 1)

\* String.prototype.includes
Includes(s, p) ==
    \E j \in 1 .. Len(s) - Len(p) + 1 : SubSeq(s, j, j + Len(p) - 1) = p

\* patterns.some(p => s.includes(p))
IncludesSome(s, patterns) == \E p \in patterns : Includes(s, p)

\* String.prototype.lastIndexOf(' '), 1-based; 0 when absent
LastIndexOfSpace(s) == LastIndex(LAMBDA j : SubSeq(s, j, j) = " ", 1, Len(s))

\* the letters that toLowerCase changes, and what it changes them to
UpperChars == "ABCDEFGHIJKLMNOPQRSTUVWXYZ" \o E_ACUTE
LowerChars == "abcdefghijklmnopqrstuvwxyz" \o e_acute
DigitChars == "0123456789"

\* \w of a JavaScript regular expression without the u flag: ASCII only
WordChars == CharsOf(SubSeq(UpperChars, 1, 26)) \cup CharsOf(SubSeq(LowerChars, 1, 26))
             \cup CharsOf(DigitChars) \cup {"_"}

\* \s over the module's characters
SpaceChars == {" ", "\t", "\n"}

IsWordChar(c) == c \in WordChars

LowerMap == [c \in CharsOf(UpperChars) |->
               LET i == CHOOSE k \in 1 .. Len(UpperChars) : SubSeq(UpperChars, k, k) = c
               IN  SubSeq(LowerChars, i, i)]

ToLowerChar(c) == IF c \in DOMAIN LowerMap THEN LowerMap[c] ELSE c

\* String.prototype.toLowerCase, character by character over a .. b
RECURSIVE ToLowerRange(_, _, _)
ToLowerRange(s, a, b) ==
    IF a > b THEN ""
    ELSE IF a = b THEN ToLowerChar(SubSeq(s, a, a))
    ELSE LET mid == (a + b) \div 2
         IN  ToLowerRange(s, a, mid) \o ToLowerRange(s, mid + 1, b)

ToLower(s) == ToLowerRange(s, 1, Len(s))

IsSpaceAt(s, j) == SubSeq(s, j, j) \in SpaceChars

\* trimEnd of the first n characters
TrimRightTo(s, n) ==
    IF n < 1 THEN ""
    ELSE IF ~IsSpaceAt(s, n) THEN SubSeq(s, 1, n)
    ELSE SubSeq(s, 1, LastIndex(LAMBDA j : ~IsSpaceAt(s, j), 1, n))

\* trimStart
TrimLeft(s) ==
    IF s = "" \/ ~IsSpaceAt(s, 1) THEN s
    ELSE LET first == FirstIndex(LAMBDA j : ~IsSpaceAt(s, j), 1, Len(s))
         IN  IF first = 0 THEN "" ELSE SubSeq(s, first, Len(s))

\* String.prototype.trim
Trim(s) == TrimLeft(TrimRightTo(s, Len(s)))

\* A run of white space starts at j and is not already a single space
RunAt(s, j) ==
    /\ IsSpaceAt(s, j)
    /\ j = 1 \/ ~IsSpaceAt(s, j - 1)
    /\ SubSeq(s, j, j) # " " \/ (j < Len(s) /\ IsSpaceAt(s, j + 1))

\* replace(/\s+/g, ' '): one step per run of white space that the
\* replacement changes (a single space is replaced by itself)
RECURSIVE CollapseWalk(_, _, _)
CollapseWalk(s, runs, i) ==
    LET j == MinFrom(runs, i)
    IN  IF j = 0 THEN SubSeq(s, i, Len(s))
        ELSE LET next == FirstIndex(LAMBDA k : ~IsSpaceAt(s, k), j, Len(s))
             IN  IF next = 0 THEN SubSeq(s, i, j - 1) \o " "
                 ELSE SubSeq(s, i, j - 1) \o " " \o CollapseWalk(s, runs, next)

CollapseSpaces(s) == CollapseWalk(s, {j \in 1 .. Len(s) : RunAt(s, j)}, 1)

\* String.prototype.split(' '): one piece more than there are spaces
RECURSIVE SplitWalk(_, _, _)
SplitWalk(s, spaces, from) ==
    LET j == MinFrom(spaces, from)
    IN  IF j = 0 THEN <<SubSeq(s, from, Len(s))>>
        ELSE <<SubSeq(s, from, j - 1)>> \o SplitWalk(s, spaces, j + 1)

Split(s) == SplitWalk(s, {j \in 1 .. Len(s) : SubSeq(s, j, j) = " "}, 1)

\* Array.prototype.join(' ')
RECURSIVE Join(_)
Join(ws) ==
    IF ws = <<>> THEN ""
    ELSE IF Len(ws) = 1 THEN ws[1]
    ELSE ws[1] \o " " \o Join(Tail(ws))

\* \b before the character at position i (1-based, 1 .. Len(s) + 1)
WordBoundary(s, i) == IsWordChar(CharAt(s, i - 1)) # IsWordChar(CharAt(s, i))

\* The positions of s where \b holds
Boundaries(s) == {j \in 1 .. Len(s) + 1 : WordBoundary(s, j)}

\* Length of the match of /\b(alts)\b/i starting at position i, 0 if none:
\* the first alternative, in order, that matches and is followed by \b.
\* lower is the text in lower case (the i flag), bounds its \b positions.
RECURSIVE AltMatch(_, _, _, _, _)
AltMatch(lower, bounds, i, alts, k) ==
    IF k > Len(alts) THEN 0
    ELSE LET n == Len(alts[k])
         IN  IF /\ i + n - 1 <= Len(lower)
                /\ SubSeq(lower, i, i + n - 1) = alts[k]
                /\ (i + n) \in bounds
             THEN n
             ELSE AltMatch(lower, bounds, i, alts, k + 1)

WordMatchAt(lower, bounds, i, alts) ==
    IF i \in bounds THEN AltMatch(lower, bounds, i, alts, 1) ELSE 0

\* replace(/\b(alts)\b/gi, ''): one step per match, left to right; starts
\* holds the positions where the expression matches
RECURSIVE RemoveWordsWalk(_, _, _, _, _, _)
RemoveWordsWalk(s, lower, bounds, alts, starts, i) ==
    LET j == MinFrom(starts, i)
    IN  IF j = 0 THEN SubSeq(s, i, Len(s))
        ELSE SubSeq(s, i, j - 1)
             \o RemoveWordsWalk(s, lower, bounds, alts, starts,
                                j + WordMatchAt(lower, bounds, j, alts))

RemoveWordsIn(s, lower, bounds, alts) ==
    RemoveWordsWalk(s, lower, bounds, alts,
                    {j \in bounds : WordMatchAt(lower, bounds, j, alts) > 0}, 1)

RemoveWords(s, alts) == RemoveWordsIn(s, ToLower(s), Boundaries(s), alts)

-----------------------------------------------------------------------------
(* Headline shortener of src/server.js: finalizeHeadline 462-523,          *)
(* fixNominationEndings 526-537, optimizeTitle 364-460                     *)

\* length of the match of /…|\.\.\./ at position i, 0 if none
EllipsisAt(s, i) ==
    IF SubSeq(s, i, i) = ELLIPSIS THEN 1
    ELSE IF StartsWithAt(s, i, "...") THEN 3
    ELSE 0

\* replace(/…|\.\.\./g, ''): one step per match, left to right
RECURSIVE RemoveEllipsesWalk(_, _, _)
RemoveEllipsesWalk(s, starts, i) ==
    LET j == MinFrom(starts, i)
    IN  IF j = 0 THEN SubSeq(s, i, Len(s))
        ELSE SubSeq(s, i, j - 1) \o RemoveEllipsesWalk(s, starts, j + EllipsisAt(s, j))

RemoveEllipses(s) ==
    RemoveEllipsesWalk(s, {j \in 1 .. Len(s) : EllipsisAt(s, j) > 0}, 1)

splitters == <<" " \o EM_DASH \o " ", " - ", " " \o EN_DASH \o " ", ": ">>

\* step 2: the first splitter, in order, whose head is at least 60% of the
\* budget cuts the text
RECURSIVE CutAtSplitter(_, _, _)
CutAtSplitter(t, maxLength, k) ==
    IF k > Len(splitters) THEN t
    ELSE LET at == IndexOf(t, splitters[k])
             head == SubSeq(t, 1, at - 1)
         IN  IF at > 0 /\ Len(head) * 10 >= maxLength * 6
             THEN Trim(head)
             ELSE CutAtSplitter(t, maxLength, k + 1)

removalRounds ==
    << <<"para", "por", "com", "sobre", "entre", "ap*s", "antes", "durante">>,
       <<"de", "da", "do", "das", "dos", "no", "na", "nos", "nas">>,
       <<"{", "foi", "ser@", "est@", "est$o", "foram", "seriam", "seriam",
         "ser@", "seriam">> >>

\* step 3: the removal rounds, each entered only while the text is too long
RECURSIVE RemoveRounds(_, _, _)
\* mutant: the second round applied whatever the length
RemoveRounds_Unguarded(t, maxLength, k) ==
    Trim(CollapseSpaces(RemoveWords(t, removalRounds[2])))
RemoveRounds(t, maxLength, k) ==
    IF k > Len(removalRounds) \/ Len(t) <= maxLength THEN t
    ELSE RemoveRounds(Trim(CollapseSpaces(RemoveWords(t, removalRounds[k]))),
                      maxLength, k + 1)

\* step 4, the loop: acc grows word by word while it fits
RECURSIVE PackLoop(_, _, _, _)
PackLoop(words, k, acc, maxLength) ==
    IF k > Len(words) THEN acc
    ELSE LET next == IF acc # "" THEN acc \o " " \o words[k] ELSE words[k]
         IN  IF Len(next) <= maxLength
             THEN PackLoop(words, k + 1, next, maxLength)
             ELSE acc

\* mutant: the text is left as it is when it is too long
PackWords_None(t, maxLength) == t

PackWords(t, maxLength) ==
    IF Len(t) > maxLength THEN Trim(PackLoop(Split(t), 1, "", maxLength)) ELSE t

badEndings == {"de", "da", "do", "das", "dos", "no", "na", "nos", "nas", "em",
               "por", "para", "com", "{", "foi", "ser@", "est@", "s$o", "foram",
               "nomeado", "nomeada", "anunciado", "anunciada", "confirmado",
               "confirmada"}

\* step 5: drop bad endings while more than one token is left
RECURSIVE PopBadEndings(_)
PopBadEndings(tokens) ==
    IF Len(tokens) > 1 /\ ToLower(Last(tokens)) \in badEndings
    THEN PopBadEndings(Pop(tokens))
    ELSE tokens

\* /nomead[oa]$/i matched at position i
EndsNomeadoAt(t, i) ==
    /\ i >= 1
    /\ i + 6 = Len(t)
    /\ ToLower(SubSeq(t, i, i + 5)) = "nomead"
    /\ ToLower(SubSeq(t, i + 6, i + 6)) \in {"o", "a"}

\* /\bnomead[oa]$/i.test(t)
EndsInNomeado(t) == EndsNomeadoAt(t, Len(t) - 6) /\ WordBoundary(t, Len(t) - 6)

\* /\bé nomead[oa]$/i.test(t)
EndsInENomeado(t) ==
    /\ EndsNomeadoAt(t, Len(t) - 6)
    /\ Len(t) >= 9
    /\ ToLower(SubSeq(t, Len(t) - 8, Len(t) - 7)) = "{ "
    /\ WordBoundary(t, Len(t) - 8)

\* step 6
FixLooseNomeado(t) ==
    LET n == Len(t)
        \* replace(/\s+é nomead[oa]$/i, ' nomeado'): leftmost start of the
        \* white space before the final "é nomeado"
        t1 == IF /\ EndsNomeadoAt(t, n - 6)
                 /\ n >= 10
                 /\ ToLower(SubSeq(t, n - 8, n - 7)) = "{ "
                 /\ SubSeq(t, n - 9, n - 9) \in SpaceChars
              THEN TrimRightTo(t, n - 9) \o " nomeado"
              ELSE t
        \* replace(/\s*nomead[oa]$/i, '').trim()
    IN  IF EndsInNomeado(t1)
        THEN Trim(TrimRightTo(t1, Len(t1) - 7))
        ELSE t1

finalizeHeadline(text, maxLength) ==
    IF text = "" THEN text
    ELSE LET t1 == Trim(CollapseSpaces(RemoveEllipses(text)))
             t2 == CutAtSplitter(t1, maxLength, 1)
             t3 == RemoveRounds(t2, maxLength, 1)
             t4 == PackWords(t3, maxLength)
             t5 == Trim(Join(PopBadEndings(Split(t4))))
         IN  FixLooseNomeado(t5)

fixNominationEndings(text) ==
    IF text = "" THEN text
    ELSE IF EndsInNomeado(text)
    THEN Trim(SubSeq(text, 1, Len(text) - 7) \o "assume cargo")
    ELSE IF EndsInENomeado(text)
    THEN Trim(SubSeq(text, 1, Len(text) - 9) \o "assume cargo")
    ELSE text

TitleBudget == 70

\* replace(/^['"]|['"]$/g, '')
StripOuterQuotes(s) ==
    LET a == IF CharAt(s, 1) \in {"'", "\""} THEN Drop(s, 1) ELSE s
    IN  IF CharAt(a, Len(a)) \in {"'", "\""} THEN SubSeq(a, 1, Len(a) - 1) ELSE a

\* optimizeTitle of src/server.js.  resp is the outcome of the request:
\* [ok |-> FALSE] for a transport error, a non-2xx status or a body without
\* choices; [ok |-> TRUE, content |-> c] for an answer with content c.
optimizeTitle(t, resp) ==
    LET optimizedTitle == IF resp.ok THEN Trim(resp.content) ELSE ""
    IN  IF resp.ok /\ Len(optimizedTitle) > 0
        THEN fixNominationEndings(finalizeHeadline(StripOuterQuotes(optimizedTitle),
                                                   TitleBudget))
        ELSE fixNominationEndings(finalizeHeadline(t, TitleBudget))

-----------------------------------------------------------------------------
(* Text normalizer and conservative shortener of src/unnamed/part_001:     *)
(* decodeHtmlEntitiesAll 260-282, optimizeTitle 285-358,                   *)
(* finalizeHeadline 360-367                                                *)

\* the entries of the table whose value is a character of the module
entities ==
    << <<"&amp;", "&">>, <<"&lt;", "<">>, <<"&gt;", ">">>, <<"&quot;", "\"">>,
       <<"&apos;", "'">>, <<"&nbsp;", " ">>,
       <<"&aacute;", a_acute>>, <<"&acirc;", a_circumflex>>,
       <<"&atilde;", a_tilde>>, <<"&eacute;", e_acute>>,
       <<"&Eacute;", E_ACUTE>>, <<"&oacute;", o_acute>>,
       <<"&uacute;", u_acute>>, <<"&iacute;", i_acute>>,
       <<"&otilde;", o_tilde>>, <<"&ccedil;", c_cedilla>>,
       <<"&ldquo;", "\"">>, <<"&rdquo;", "\"">>, <<"&lsquo;", "'">>,
       <<"&rsquo;", "'">>, <<"&ndash;", EN_DASH>>, <<"&mdash;", EM_DASH>> >>

\* entities[entity] || entity
EntityValue(entity) ==
    LET hits == {k \in 1 .. Len(entities) : entities[k][1] = entity}
    IN  IF hits = {} THEN entity ELSE entities[CHOOSE k \in hits : TRUE][2]

IsAlnumAt(s, j) == SubSeq(s, j, j) \in WordChars \ {"_"}

\* length of the match of /&[a-zA-Z0-9]+;/ at position i, 0 if none
EntityAt(s, i) ==
    IF SubSeq(s, i, i) # "&" THEN 0
    ELSE LET stop == FirstIndex(LAMBDA k : ~IsAlnumAt(s, k), i + 1, Len(s))
         IN  IF stop > i + 1 /\ SubSeq(s, stop, stop) = ";" THEN stop - i + 1 ELSE 0

\* replace(/&[a-zA-Z0-9]+;/g, entity => entities[entity] || entity):
\* one step per match, left to right
RECURSIVE DecodeWalk(_, _, _)
DecodeWalk(s, starts, i) ==
    LET j == MinFrom(starts, i)
    IN  IF j = 0 THEN SubSeq(s, i, Len(s))
        ELSE LET n == EntityAt(s, j)
             IN  SubSeq(s, i, j - 1) \o EntityValue(SubSeq(s, j, j + n - 1))
                 \o DecodeWalk(s, starts, j + n)

DecodeEntities(s) == DecodeWalk(s, {j \in 1 .. Len(s) : EntityAt(s, j) > 0}, 1)

\* normalize('NFC') over the module's characters: a letter followed by the
\* combining acute accent becomes the accented letter
NfcBases == "aeiouE"
NfcComposed == a_acute \o e_acute \o i_acute \o o_acute \o u_acute \o E_ACUTE

ComposableAt(s, j) ==
    /\ j < Len(s)
    /\ SubSeq(s, j + 1, j + 1) = COMBINING_ACUTE
    /\ Includes(NfcBases, SubSeq(s, j, j))

RECURSIVE NfcWalk(_, _, _)
NfcWalk(s, starts, i) ==
    LET j == MinFrom(starts, i)
    IN  IF j = 0 THEN SubSeq(s, i, Len(s))
        ELSE LET k == IndexOf(NfcBases, SubSeq(s, j, j))
             IN  SubSeq(s, i, j - 1) \o SubSeq(NfcComposed, k, k)
                 \o NfcWalk(s, starts, j + 2)

NFC(s) == NfcWalk(s, {j \in 1 .. Len(s) : ComposableAt(s, j)}, 1)

decodeHtmlEntitiesAll(text) == IF text = "" THEN "" ELSE NFC(DecodeEntities(text))

\* length of the match of /[…]|\.{3,}/ at position i, 0 if none
EllipsisRunAt(s, i) ==
    IF SubSeq(s, i, i) = ELLIPSIS THEN 1
    ELSE IF StartsWithAt(s, i, "...")
    THEN LET stop == FirstIndex(LAMBDA k : SubSeq(s, k, k) # ".", i, Len(s))
         IN  IF stop = 0 THEN Len(s) - i + 1 ELSE stop - i
    ELSE 0

\* replace(/[…]|\.{3,}/g, ''): one step per match, left to right
RECURSIVE RemoveEllipsisRunsWalk(_, _, _)
RemoveEllipsisRunsWalk(s, starts, i) ==
    LET j == MinFrom(starts, i)
    IN  IF j = 0 THEN SubSeq(s, i, Len(s))
        ELSE SubSeq(s, i, j - 1)
             \o RemoveEllipsisRunsWalk(s, starts, j + EllipsisRunAt(s, j))

RemoveEllipsisRuns(s) ==
    RemoveEllipsisRunsWalk(s, {j \in 1 .. Len(s) : EllipsisRunAt(s, j) > 0}, 1)

\* finalizeHeadline of part_001: the text normalizer
normalize(text) ==
    IF text = "" THEN text
    ELSE NFC(Trim(CollapseSpaces(RemoveEllipsisRuns(decodeHtmlEntitiesAll(text)))))

MAX == 60
MinCut == 40

\* "clamp suave por palavra"; cut is the 0-based index lastIndexOf returns
SoftClamp(cleaned) ==
    IF Len(cleaned) > MAX
    THEN LET slice == Slice(cleaned, 0, MAX + 1)
             cut == LastIndexOfSpace(slice) - 1
         IN  Trim(IF cut > MinCut THEN Slice(slice, 0, cut) ELSE Slice(cleaned, 0, MAX))
    ELSE cleaned

conservative(t) ==
    SoftClamp(NFC(Trim(CollapseSpaces(RemoveEllipsisRuns(decodeHtmlEntitiesAll(t))))))

\* replace(/["“”'’]/g, ''): of these the module's characters have " and '
RECURSIVE RemoveQuotesWalk(_, _, _)
RemoveQuotesWalk(s, starts, i) ==
    LET j == MinFrom(starts, i)
    IN  IF j = 0 THEN SubSeq(s, i, Len(s))
        ELSE SubSeq(s, i, j - 1) \o RemoveQuotesWalk(s, starts, j + 1)

RemoveQuotes(s) ==
    RemoveQuotesWalk(s, {j \in 1 .. Len(s) : SubSeq(s, j, j) \in {"\"", "'"}}, 1)

\* optimizeTitle of part_001.  hasKey: GROQ_CONFIG.API_KEY is set; resp as
\* for optimizeTitle, [ok |-> FALSE] also standing for a thrown error.
optimizeTitleMinimal(t, hasKey, resp) ==
    IF ~hasKey \/ ~resp.ok THEN conservative(t)
    ELSE LET out == NFC(Trim(CollapseSpaces(RemoveQuotes(
                       RemoveEllipsisRuns(decodeHtmlEntitiesAll(Trim(resp.content)))))))
         IN  IF out = "" THEN conservative(t) ELSE SoftClamp(out)

-----------------------------------------------------------------------------
(* truncateIntelligently of src/unnamed/part_000, 58-121                   *)

unnecessaryWords == <<"{", "foi", "ser@", "est@", "sendo", "para", "da", "do",
                      "de", "em", "na", "no", "com", "por">>

\* the first word whose removal brings the text into (80% of max, max];
\* lower is the text in lower case (the i flag of each expression) and
\* bounds its \b positions
RECURSIVE Reformulate(_, _, _, _, _)
Reformulate(text, lower, bounds, maxLength, k) ==
    IF k > Len(unnecessaryWords) THEN text
    ELSE LET testShortened ==
               Trim(CollapseSpaces(RemoveWordsIn(text, lower, bounds,
                                                 <<unnecessaryWords[k]>>)))
         IN  IF Len(testShortened) <= maxLength
                /\ Len(testShortened) * 10 > maxLength * 8
             THEN testShortened
             ELSE Reformulate(text, lower, bounds, maxLength, k + 1)

\* while (cutPoint > 0 && text[cutPoint] !== ' ') cutPoint--   (0-based)
FindCutPoint(text, cutPoint) ==
    LET j == LastIndex(LAMBDA k : SubSeq(text, k, k) = " ", 2, Min(cutPoint + 1, Len(text)))
    IN  IF j = 0 THEN 0 ELSE j - 1

RECURSIVE PackWithEllipsis(_, _, _, _)
PackWithEllipsis(words, k, result, maxLength) ==
    IF k > Len(words) THEN result
    ELSE LET testResult == IF k = 1 THEN words[k] ELSE result \o " " \o words[k]
         IN  IF Len(testResult) + 3 <= maxLength
             THEN PackWithEllipsis(words, k + 1, testResult, maxLength)
             ELSE result

\* replace(/[.,;:!?]$/, '')
StripFinalPunctuation(s) ==
    IF CharAt(s, Len(s)) \in {".", ",", ";", ":", "!", "?"}
    THEN SubSeq(s, 1, Len(s) - 1)
    ELSE s

truncateIntelligently(text, maxLength) ==
    IF Len(text) <= maxLength THEN text
    ELSE LET shortenedText == Reformulate(text, ToLower(text), Boundaries(text), maxLength, 1)
         IN  IF Len(shortenedText) <= maxLength THEN shortenedText
             ELSE LET cutPoint == FindCutPoint(text, maxLength - 3)
                  IN  IF cutPoint * 10 < maxLength * 6
                      THEN PackWithEllipsis(Split(text), 1, "", maxLength) \o "..."
                      ELSE StripFinalPunctuation(Trim(Slice(text, 0, cutPoint))) \o "..."

TruncateBudget == 55

-----------------------------------------------------------------------------
(* Line wrapper: src/server.js 1009-1096 (same text in part_001 1003-1090) *)

FONT_SIZE == 76
CHAR_WIDTH_NORMAL == 58
CHAR_WIDTH_BOLD == 62
SPACE_WIDTH == 32 * FONT_SIZE
CanvasWidth == 1080
titleMarginLeft == 60
marginRight == 60
titleMaxWidth == CanvasWidth - (titleMarginLeft + marginRight)
CardMaxLines == 3

\* mutant: the bold factor is forgotten
estimateWordWidth_IgnoreBold(word, isBold) ==
    Len(word) * FONT_SIZE * CHAR_WIDTH_NORMAL

estimateWordWidth(word, isBold) ==
    LET factor == IF isBold THEN CHAR_WIDTH_BOLD ELSE CHAR_WIDTH_NORMAL
    IN  Len(word) * FONT_SIZE * factor

RECURSIVE lineWidthFrom(_, _)
lineWidthFrom(arr, i) ==
    IF i > Len(arr) THEN 0
    ELSE estimateWordWidth(arr[i].text, arr[i].isBold)
         + (IF i > 1 THEN SPACE_WIDTH ELSE 0)
         + lineWidthFrom(arr, i + 1)

lineWidth(arr) == lineWidthFrom(arr, 1)

\* The packing loop.  i is the 1-based position of the next word; st holds
\* the loop's variables built, line and width.
RECURSIVE GreedyLoop(_, _, _, _, _, _)
GreedyLoop(ws, bStart, bLen, mw, ml, st) ==
    LET i == st.i IN
    IF i > Len(ws) THEN st
    ELSE
      LET w == ws[i]
          isBold == (i - 1 >= bStart) /\ (i - 1 < bStart + bLen)
          wWidth == estimateWordWidth(w, isBold)
          extraSpace == IF Len(st.line) > 0 THEN SPACE_WIDTH ELSE 0
      IN  IF st.width + extraSpace + wWidth <= mw \/ Len(st.line) = 0
          THEN GreedyLoop(ws, bStart, bLen, mw, ml,
                 [st EXCEPT !.i = i + 1,
                            !.line = Append(@, [text |-> w, isBold |-> isBold]),
                            !.width = @ + extraSpace + wWidth])
          ELSE LET pushed == Append(st.built, st.line)
               IN  IF Len(pushed) >= ml
                   THEN [st EXCEPT !.built = pushed]
                   ELSE GreedyLoop(ws, bStart, bLen, mw, ml,
                          [st EXCEPT !.i = i + 1,
                                     !.built = pushed,
                                     !.line = <<[text |-> w, isBold |-> isBold]>>,
                                     !.width = wWidth])

GreedyPack(ws, bStart, bLen, mw, ml) ==
    LET st == GreedyLoop(ws, bStart, bLen, mw, ml,
                         [i |-> 1, built |-> <<>>, line |-> <<>>, width |-> 0])
    IN  IF Len(st.line) > 0 /\ Len(st.built) < ml
        THEN Append(st.built, st.line)
        ELSE st.built

\* mutant: the borrowed word is not put back when it does not fit
WidowStep_NoPutBack(b, i, mw) ==
    IF Len(b[i]) # 1 THEN b
    ELSE IF i > 1 /\ Len(b[i - 1]) > 2
    THEN LET moved == Last(b[i - 1])
         IN  IF lineWidth(b[i]) + SPACE_WIDTH
                  + estimateWordWidth(moved.text, moved.isBold) <= mw
             THEN [b EXCEPT ![i - 1] = Pop(@), ![i] = Unshift(@, moved)]
             ELSE [b EXCEPT ![i - 1] = Pop(@)]
    ELSE b

\* mutant: no borrowing at all
WidowStep_Skip(b, i, mw) == b

\* mutant: the borrowed word loses its emphasis
WidowStep_Unbold(b, i, mw) ==
    IF Len(b[i]) # 1 THEN b
    ELSE IF i > 1 /\ Len(b[i - 1]) > 2
    THEN LET moved == Last(b[i - 1])
         IN  IF lineWidth(b[i]) + SPACE_WIDTH
                  + estimateWordWidth(moved.text, moved.isBold) <= mw
             THEN [b EXCEPT ![i - 1] = Pop(@),
                            ![i] = Unshift(@, [moved EXCEPT !.isBold = FALSE])]
             ELSE b
    ELSE b

\* One iteration of the widow loop for line i (1-based).
WidowStep(b, i, mw) ==
    IF Len(b[i]) # 1 THEN b
    ELSE IF i > 1 /\ Len(b[i - 1]) > 2
    THEN LET moved == Last(b[i - 1])
         IN  IF lineWidth(b[i]) + SPACE_WIDTH
                  + estimateWordWidth(moved.text, moved.isBold) <= mw
             THEN [b EXCEPT ![i - 1] = Pop(@), ![i] = Unshift(@, moved)]
             ELSE b
    ELSE IF i + 1 <= Len(b) /\ Len(b[i + 1]) > 1
    THEN LET movedN == Head(b[i + 1])
         IN  IF lineWidth(b[i]) + (IF Len(b[i]) > 0 THEN SPACE_WIDTH ELSE 0)
                  + estimateWordWidth(movedN.text, movedN.isBold) <= mw
             THEN [b EXCEPT ![i] = Append(@, movedN), ![i + 1] = Tail(@)]
             ELSE b
    ELSE b

RECURSIVE WidowPass(_, _, _)
WidowPass(b, i, mw) ==
    IF i > Len(b) THEN b ELSE WidowPass(WidowStep(b, i, mw), i + 1, mw)

\* The clamp loop: the inner while for line i, then the next line.
RECURSIVE ClampPass(_, _, _)
ClampPass(b, i, mw) ==
    IF i > Len(b) THEN b
    ELSE IF lineWidth(b[i]) > mw /\ Len(b[i]) > 1
    THEN LET spill == Last(b[i])
             popped == [b EXCEPT ![i] = Pop(@)]
         IN  IF i + 1 <= Len(b)
                /\ lineWidth(b[i + 1])
                     + (IF Len(b[i + 1]) > 0 THEN SPACE_WIDTH ELSE 0)
                     + estimateWordWidth(spill.text, spill.isBold) <= mw
             THEN ClampPass([popped EXCEPT ![i + 1] = Unshift(@, spill)], i, mw)
             ELSE ClampPass(popped, i, mw)
    ELSE ClampPass(b, i + 1, mw)

\* built.length = maxLines
Truncate(b, ml) == IF Len(b) > ml THEN SubSeq(b, 1, ml) ELSE b

\* mutant: the line cap is off by one
wrapWordsToWidth_CapOffByOne(ws, bStart, bLen, mw, ml) ==
    Truncate(ClampPass(WidowPass(GreedyPack(ws, bStart, bLen, mw, ml + 1),
                                 1, mw), 1, mw), ml + 1)

wrapWordsToWidth(ws, bStart, bLen, mw, ml) ==
    Truncate(ClampPass(WidowPass(GreedyPack(ws, bStart, bLen, mw, ml),
                                 1, mw), 1, mw), ml)

\* the oracle was not asked, or it failed
NoAnswer == [ok |-> FALSE, content |-> ""]

-----------------------------------------------------------------------------
(* Bounds of the wrapper's inputs                                          *)

MaxWords == 5
MaxBold == 2
NarrowWidth == 480

WrapVocab == {"na", "Teresina", "infraestrutura"}

WidthBudgets == {titleMaxWidth * 100, NarrowWidth * 100}

RECURSIVE SeqsUpTo(_, _)
SeqsUpTo(S, n) ==
    IF n = 0 THEN {<<>>}
    ELSE LET shorter == SeqsUpTo(S, n - 1)
         IN  shorter \cup {Append(s, x) : s \in {t \in shorter : Len(t) = n - 1},
                                           x \in S}

WrapInit ==
    /\ pc = "start"
    /\ wordsArr \in SeqsUpTo(WrapVocab, MaxWords)
    /\ boldStart \in -1 .. MaxWords
    /\ boldLength \in 0 .. MaxBold
    /\ maxWidth \in WidthBudgets
    /\ maxLines \in 1 .. CardMaxLines
    /\ built = <<>>
    /\ title = "" /\ oracle = NoAnswer /\ shortener = "none" /\ shortened = ""
    /\ again = ""
    /\ CardIdle

Wrap ==
    /\ pc = "start"
    /\ built' = wrapWordsToWidth(wordsArr, boldStart, boldLength, maxWidth, maxLines)
    /\ pc' = "done"
    /\ UNCHANGED <<wordsArr, boldStart, boldLength, maxWidth, maxLines>>
    /\ UNCHANGED <<shortenVars, cardVars>>

WrapNext == Wrap

SpecWrap == WrapInit /\ [][WrapNext]_vars

-----------------------------------------------------------------------------
(* The shorteners applied to headlines: a lead followed by up to MaxTail   *)
(* fragments, joined by single spaces                                      *)

MaxTail == 3

ScenarioA ==
    "Advogado Piripiriense Jos{ Am^ncio Neto { nomeado coordenador do escrit*rio regional"

ScenarioB ==
    "Prefeito de Teresina anuncia nova obra de infraestrutura para o centro da cidade"

Leads == {"",
          "Advogado Piripiriense Jos{ Am^ncio Neto",
          ScenarioB,
          "Governador anuncia investimento milion@rio"}

Fragments == {"{ nomeado", "coordenador", "do escrit*rio regional", "da sa%de",
              "- veja...", "anticonstitucionalissimamente"}

Headlines ==
    {Join((IF lead = "" THEN <<>> ELSE <<lead>>) \o tail) :
        lead \in Leads, tail \in SeqsUpTo(Fragments, MaxTail)}

OracleAnswers ==
    {[ok |-> TRUE, content |-> c] :
        c \in {"", "\"Prefeitura de Teresina anuncia nova obra de infraestrutura para o centro...\""}}

OracleOutcomes == {NoAnswer} \cup OracleAnswers

ShortenInit ==
    /\ pc = "start"
    /\ title \in Headlines
    /\ oracle = NoAnswer /\ shortener = "none" /\ shortened = "" /\ again = ""
    /\ wordsArr = <<>> /\ boldStart = -1 /\ boldLength = 0
    /\ maxWidth = 0 /\ maxLines = 0 /\ built = <<>>
    /\ CardIdle

\* src/server.js optimizeTitle
OptimizeTitle ==
    /\ pc = "start"
    /\ \E resp \in OracleOutcomes :
          /\ oracle' = resp
          /\ shortened' = optimizeTitle(title, resp)
    /\ shortener' = "optimizeTitle"
    /\ pc' = "done"
    /\ UNCHANGED <<title, again, wrapVars, cardVars>>

\* part_001 optimizeTitle
OptimizeTitleMinimal ==
    /\ pc = "start"
    /\ \E call \in {<<FALSE, NoAnswer>>} \cup ({TRUE} \X OracleOutcomes) :
          /\ oracle' = call[2]
          /\ shortened' = optimizeTitleMinimal(title, call[1], call[2])
    /\ shortener' = "conservative"
    /\ pc' = "done"
    /\ UNCHANGED <<title, again, wrapVars, cardVars>>

\* part_000 truncateIntelligently(titulo, 55)
TruncateIntelligently ==
    /\ pc = "start"
    /\ oracle' = NoAnswer
    /\ shortened' = truncateIntelligently(title, TruncateBudget)
    /\ shortener' = "truncateIntelligently"
    /\ pc' = "done"
    /\ UNCHANGED <<title, again, wrapVars, cardVars>>

ShortenNext == OptimizeTitle \/ OptimizeTitleMinimal \/ TruncateIntelligently

SpecShorten == ShortenInit /\ [][ShortenNext]_vars

-----------------------------------------------------------------------------
(* Properties of the line wrapper                                          *)

Texts(line) == [j \in 1 .. Len(line) |-> line[j].text]

\* The width of a line as the specification states it: length x 76 x 0.62
\* (emphasized) or 0.58 (normal) per word plus 0.32 x 76 per gap, in
\* hundredths of a pixel.
RECURSIVE StatedWidthFrom(_, _)
StatedWidthFrom(line, j) ==
    IF j > Len(line) THEN 0
    ELSE Len(line[j].text) * 76 * (IF line[j].isBold THEN 62 ELSE 58)
         + (IF j > 1 THEN 32 * 76 ELSE 0)
         + StatedWidthFrom(line, j + 1)

StatedWidth(line) == StatedWidthFrom(line, 1)

\* C1: wrapWordsToWidth returns at most maxLines lines.
C1_AtMostMaxLines == pc = "done" => Len(built) <= maxLines

C1_Witness ==
    /\ pc = "done"
    /\ Len(built) = maxLines
    /\ Len(Flatten(built)) < Len(wordsArr)

\* C2: the lines, concatenated in order, are the input words in their
\* original order, none repeated and none omitted except the words dropped
\* at the end because the line cap was reached.
C2_WordsPreserved ==
    pc = "done" =>
      LET out == Texts(Flatten(built))
      IN  /\ Len(out) <= Len(wordsArr)
          /\ out = SubSeq(wordsArr, 1, Len(out))
          /\ Len(built) < maxLines => Len(out) = Len(wordsArr)

\* the widow repair has moved a word
C2_Witness ==
    /\ pc = "done"
    /\ Len(built) > 0
    /\ built # GreedyPack(wordsArr, boldStart, boldLength, maxWidth, maxLines)

\* C7: every returned line is within the width budget unless it is a single
\* word that alone is wider than the budget.
C7_WithinBudget ==
    pc = "done" =>
      \A i \in 1 .. Len(built) :
         \/ StatedWidth(built[i]) <= maxWidth
         \/ Len(built[i]) = 1

C7_Witness ==
    /\ pc = "done"
    /\ \E i \in 1 .. Len(built) :
          Len(built[i]) = 1 /\ StatedWidth(built[i]) > maxWidth
    /\ \E i \in 1 .. Len(built) :
          /\ Len(built[i]) > 1
          /\ \E j \in 1 .. Len(built[i]) : built[i][j].isBold
          /\ StatedWidth(built[i]) + 32 * 76 + 2 * 76 * 58 > maxWidth

\* C8 as stated: with more than 3 words and maxLines = 3 no returned line
\* has exactly one word.
C8_NoSingleWordLine ==
    (pc = "done" /\ Len(wordsArr) > 3 /\ maxLines = 3) =>
      \A i \in 1 .. Len(built) : Len(built[i]) # 1

\* C8 amended: with more than 3 words and maxLines = 3 a returned line has
\* exactly one word only if no neighbour could join it: on the first line the
\* second word does not fit beside it; on a later line the line before has
\* at most two words, or its last word and the single word together exceed
\* the width budget.
C8_SingleWordOnlyIfUnavoidable ==
    (pc = "done" /\ Len(wordsArr) > 3 /\ maxLines = 3) =>
      \A i \in 1 .. Len(built) :
         Len(built[i]) = 1 =>
           IF i = 1
           THEN /\ Len(built) > 1
                /\ StatedWidth(<<built[1][1], built[2][1]>>) > maxWidth
           ELSE \/ Len(built[i - 1]) <= 2
                \/ StatedWidth(<<Last(built[i - 1]), built[i][1]>>) > maxWidth

\* a single-word line survives after a line of three words or more
C8_Witness ==
    /\ pc = "done" /\ Len(wordsArr) > 3 /\ maxLines = 3
    /\ \E i \in 2 .. Len(built) : Len(built[i]) = 1 /\ Len(built[i - 1]) > 2

-----------------------------------------------------------------------------
(* The normalizer applied to short texts: up to MaxPieces pieces put       *)
(* together without separators, then applied again to its own result       *)

MaxPieces == 4

Pieces == {"&amp;", "&eacute;", "eacute;", "&zzz;", ".", ELLIPSIS, " ", "e",
           COMBINING_ACUTE}

RECURSIVE Concat(_)
Concat(ps) == IF ps = <<>> THEN "" ELSE Head(ps) \o Concat(Tail(ps))

RawTexts == {Concat(ps) : ps \in SeqsUpTo(Pieces, MaxPieces)}

NormInit ==
    /\ pc = "start"
    /\ title \in RawTexts
    /\ oracle = NoAnswer /\ shortener = "none" /\ shortened = "" /\ again = ""
    /\ wordsArr = <<>> /\ boldStart = -1 /\ boldLength = 0
    /\ maxWidth = 0 /\ maxLines = 0 /\ built = <<>>
    /\ CardIdle

\* part_001 finalizeHeadline(title)
Normalize ==
    /\ pc = "start"
    /\ shortened' = normalize(title)
    /\ shortener' = "normalize"
    /\ pc' = "once"
    /\ UNCHANGED <<title, oracle, again, wrapVars, cardVars>>

\* src/server.js finalizeHeadline(title, 70)
FinalizeHeadline ==
    /\ pc = "start"
    /\ shortened' = finalizeHeadline(title, TitleBudget)
    /\ shortener' = "finalizeHeadline"
    /\ pc' = "once"
    /\ UNCHANGED <<title, oracle, again, wrapVars, cardVars>>

\* the same function applied to its own result
NormalizeAgain ==
    /\ pc = "once"
    /\ again' = IF shortener = "normalize" THEN normalize(shortened)
                ELSE finalizeHeadline(shortened, TitleBudget)
    /\ pc' = "twice"
    /\ UNCHANGED <<title, oracle, shortener, shortened, wrapVars, cardVars>>

NormNext == Normalize \/ FinalizeHeadline \/ NormalizeAgain

SpecNorm == NormInit /\ [][NormNext]_vars

-----------------------------------------------------------------------------
(* Properties of the shorteners and of the normalizer                      *)

BudgetOf(fn) ==
    IF fn = "optimizeTitle" THEN TitleBudget
    ELSE IF fn = "conservative" THEN MAX
    ELSE TruncateBudget

\* the headline with ellipses removed and white space normalized
Plain(text) == Trim(CollapseSpaces(RemoveEllipses(text)))

WordsOf(text) == IF text = "" THEN <<>> ELSE Split(text)

Range(f) == {f[x] : x \in DOMAIN f}

LastWord(text) == IF text = "" THEN "" ELSE Last(Split(text))

\* a is b with some elements left out
RECURSIVE IsSubsequence(_, _)
IsSubsequence(a, b) ==
    IF a = <<>> THEN TRUE
    ELSE IF b = <<>> THEN FALSE
    ELSE IF Head(a) = Head(b) THEN IsSubsequence(Tail(a), Tail(b))
    ELSE IsSubsequence(a, Tail(b))

\* no oracle answer was used
LocalPath == ~oracle.ok

\* C3: the result is within the budget, or else it is strictly shorter than
\* the headline and ends on a word boundary (its last word is a whole word
\* of the headline).
C3_WithinBudgetOrShorter ==
    pc = "done" =>
      \/ Len(shortened) <= BudgetOf(shortener)
      \/ /\ Len(shortened) < Len(title)
         /\ LastWord(shortened) \in Range(WordsOf(Trim(CollapseSpaces(title))))

\* a headline over the budget was shortened by the local path
C3_Witness ==
    /\ pc = "done" /\ LocalPath
    /\ Len(title) > TitleBudget
    /\ Len(shortened) > 0
    /\ Len(shortened) <= BudgetOf(shortener)
    /\ Len(shortened) + Len(LastWord(title)) > BudgetOf(shortener)

\* C4: every word of the shortened headline is a whole word of the input
\* headline, in the same relative order (ellipses aside, on both sides).
C4_WholeWordsOnly ==
    (pc = "done" /\ LocalPath) =>
      IsSubsequence(WordsOf(Plain(shortened)), WordsOf(Plain(title)))

BannedEndings == {"de", "da", "do", "no", "na", "em", "por", "para", "com",
                  "{", "foi", "ser@", "est@", "nomeado", "nomeada"}

\* C9: the shortened headline never ends with a banned-ending word; for the
\* Scenario A headline and budget 55 the result has at most 55 characters and
\* does not end in "nomeado", "é" or "do".
C9_NoBannedEnding ==
    pc = "done" =>
      /\ ToLower(LastWord(Plain(shortened))) \notin BannedEndings
      /\ (title = ScenarioA /\ BudgetOf(shortener) = 55) =>
            /\ Len(shortened) <= 55
            /\ LastWord(Plain(shortened)) \notin {"nomeado", "{", "do"}

\* C5: the returned headline contains neither the ellipsis character nor
\* three consecutive periods.
C5_NoEllipsis ==
    pc = "once" =>
      /\ ~Includes(shortened, ELLIPSIS)
      /\ ~Includes(shortened, "...")

\* C10: normalizing a normalized text changes nothing.
C10_Idempotent ==
    (pc = "twice" /\ shortener = "normalize") => again = shortened

-----------------------------------------------------------------------------
(* Automatic emphasis selection: findKeywords, src/server.js 827-965       *)
(* (src/unnamed/part_001 747-885 is the same code)                         *)

stopWords == {"de", "da", "do", "em", "na", "no", "com", "para", "por", "a", "o",
              "e", "que", "um", "uma", "se", "foi", "ser"}

locations == {"Teresina", "Piau/", "Brasil", "Bras/lia", "Pedro II", "Parna/ba",
              "Picos", "Regional", "Nacional", "Estadual", "Municipal"}

verbs == {"vence", "ganha", "perde", "conquista", "anuncia", "revela", "inicia",
          "termina", "aprova", "rejeita", "inaugura", "investe", "cria"}

nouns == {"campeonato", "governo", "prefeitura", "empresa", "projeto",
          "investimento", "hospital", "escola", "universidade", "festival",
          "feira", "educa#$o", "sa%de", "esta#$o"}

\* normalize('NFD').replace(/[\u0300-\u036f]/g, '') of one character
BaseOf(c) ==
    IF c \in {a_acute, a_circumflex, a_tilde} THEN "a"
    ELSE IF c = e_acute THEN "e"
    ELSE IF c = E_ACUTE THEN "E"
    ELSE IF c = i_acute THEN "i"
    ELSE IF c \in {o_acute, o_tilde} THEN "o"
    ELSE IF c = u_acute THEN "u"
    ELSE IF c = c_cedilla THEN "c"
    ELSE IF c = COMBINING_ACUTE THEN ""
    ELSE c

RECURSIVE StripDiacriticsRange(_, _, _)
StripDiacriticsRange(s, a, b) ==
    IF a > b THEN ""
    ELSE IF a = b THEN BaseOf(SubSeq(s, a, a))
    ELSE LET mid == (a + b) \div 2
         IN  StripDiacriticsRange(s, a, mid) \o StripDiacriticsRange(s, mid + 1, b)

StripDiacritics(s) == StripDiacriticsRange(s, 1, Len(s))

\* word.toLowerCase().normalize('NFD').replace(/[\u0300-\u036f]/g, '')
Folded(word) == StripDiacritics(ToLower(word))

\* /^[A-Z...]/.test(word) && word.length > 2; of the accented capitals of the
\* class the module's characters have E acute
isProperNoun(word) ==
    /\ Len(word) > 2
    /\ SubSeq(word, 1, 1) \in CharsOf(UpperChars)

foldedLocations == {Folded(loc) : loc \in locations}

isLocation(word) == IncludesSome(Folded(word), foldedLocations)

\* /^[IVX]+$/.test(word)
\* mutant: no word is a Roman numeral
isRomanNumeral_Never(word) == FALSE
isRomanNumeral(word) == word # "" /\ CharsOf(word) \subseteq {"I", "V", "X"}

isNumber(word) ==
    \/ CharsOf(word) \cap CharsOf(DigitChars) # {}
    \/ IncludesSome(ToLower(word), {"milh$o", "milh]es", "mil", "bilh$o", "bilh]es"})
    \/ isRomanNumeral(word)

isActionVerb(word) == IncludesSome(Folded(word), verbs)

foldedNouns == {StripDiacritics(noun) : noun \in nouns}

isImportantNoun(word) == IncludesSome(Folded(word), foldedNouns)

\* words and startIndex are those of the code; startIndex counts from 0
isCompositeEntity(words, startIndex) ==
    IF /\ startIndex < Len(words) - 1
       /\ ToLower(words[startIndex + 1]) = "pedro"
       /\ ToLower(words[startIndex + 2]) = "ii"
    THEN 2 ELSE 0

maxHighlightWords(words) == Max(2, (Len(words) * 3) \div 10)

wordScore(word) ==
    (IF isProperNoun(word) THEN 4 ELSE 0) + (IF isLocation(word) THEN 3 ELSE 0)
    + (IF isNumber(word) THEN 3 ELSE 0) + (IF isActionVerb(word) THEN 2 ELSE 0)
    + (IF isImportantNoun(word) THEN 3 ELSE 0) + (IF isRomanNumeral(word) THEN 4 ELSE 0)

isStopWord(word) == ToLower(word) \in stopWords

\* validSequence after the scoring loop: no stop word at either end and no
\* short word without a score
validSequence(sequence) ==
    \A i \in 1 .. Len(sequence) :
        IF isStopWord(sequence[i]) THEN i # 1 /\ i # Len(sequence)
        ELSE ~(wordScore(sequence[i]) = 0 /\ Len(sequence[i]) < 4
               /\ ~isRomanNumeral(sequence[i]))

RECURSIVE SumOver(_, _)
SumOver(f, S) ==
    IF S = {} THEN 0
    ELSE LET x == CHOOSE y \in S : TRUE IN f[x] + SumOver(f, S \ {x})

\* the score of a valid sequence that begins at word start (from 0)
sequenceScore(sequence, start) ==
    LET n == Len(sequence)
        scores == [i \in 1 .. n |->
                     IF isStopWord(sequence[i]) THEN 0 ELSE wordScore(sequence[i])]
        entityBonus ==
            5 * Cardinality({i \in 0 .. n - 1 : isCompositeEntity(sequence, i) > 0})
        sequenceText == ToLower(Join(sequence))
        pedro == Includes(sequenceText, "pedro ii")
        hasProperNoun == \E i \in 1 .. n : isProperNoun(sequence[i])
        hasAction == \E i \in 1 .. n :
                        isActionVerb(sequence[i]) \/ isImportantNoun(sequence[i])
    IN  SumOver(scores, 1 .. n) + entityBonus
        + (IF pedro THEN 8 ELSE 0)
        + (IF start = 0 /\ pedro /\ n <= 4 THEN 5 ELSE 0)
        + (IF n >= 2 /\ hasProperNoun /\ hasAction THEN 3 ELSE 0)
        + (IF start <= 1 THEN 1 ELSE 0)

\* the inner loop at one start (from 0): lengths from length up to
\* min(maxHighlightWords, words.length - start); best is <<bestStart,
\* bestLength, bestScore>>
RECURSIVE lengthLoop(_, _, _, _)
\* mutant: a window of the same score replaces the one kept so far
RECURSIVE lengthLoop_LastWins(_, _, _, _)
lengthLoop_LastWins(words, start, length, best) ==
    IF length > Min(maxHighlightWords(words), Len(words) - start) THEN best
    ELSE LET sequence == SubSeq(words, start + 1, start + length)
             score == sequenceScore(sequence, start)
         IN  IF validSequence(sequence) /\ score >= best[3]
             THEN lengthLoop_LastWins(words, start, length + 1, <<start, length, score>>)
             ELSE lengthLoop_LastWins(words, start, length + 1, best)
lengthLoop(words, start, length, best) ==
    IF length > Min(maxHighlightWords(words), Len(words) - start) THEN best
    ELSE LET sequence == SubSeq(words, start + 1, start + length)
             score == sequenceScore(sequence, start)
         IN  IF validSequence(sequence) /\ score > best[3]
             THEN lengthLoop(words, start, length + 1, <<start, length, score>>)
             ELSE lengthLoop(words, start, length + 1, best)

\* the outer loop over the starts
RECURSIVE startLoop(_, _, _)
startLoop(words, start, best) ==
    IF start >= Len(words) THEN best
    ELSE startLoop(words, start + 1, lengthLoop(words, start, 2, best))

bestWindow(words) == startLoop(words, 0, <<-1, 0, 0>>)

fallbackFits(words, i) ==
    /\ ~isStopWord(words[i + 1]) /\ ~isStopWord(words[i + 2])
    /\ Len(words[i + 1]) > 2 /\ Len(words[i + 2]) > 2

\* mutant: the last word is paired with the word after it
fallbackPair_PastEnd(words) ==
    LET fits == {i \in 0 .. Len(words) - 1 :
                    ~isStopWord(words[i + 1]) /\ Len(words[i + 1]) > 2}
    IN  IF fits = {} THEN <<-1, 0>> ELSE <<MinFrom(fits, 0), 2>>

\* the fallback loop: the first adjacent pair of words longer than 2
\* characters that are not stop words
fallbackPair(words) ==
    LET fits == {i \in 0 .. Len(words) - 2 : fallbackFits(words, i)}
    IN  IF fits = {} THEN <<-1, 0>> ELSE <<MinFrom(fits, 0), 2>>

findKeywords(text) ==
    LET words == Split(text)
        best == bestWindow(words)
        found == IF best[1] = -1 THEN fallbackPair(words) ELSE best
    IN  [boldStart |-> found[1], boldLength |-> found[2]]

-----------------------------------------------------------------------------
(* Emphasis selection applied to headlines: a lead followed by up to       *)
(* MaxKeywordWords words, joined by single spaces; the empty word gives    *)
(* headlines with doubled, leading and trailing spaces                     *)

MaxKeywordWords == 3

KeywordVocab == {"", "Pedro", "II", "inaugura", "ponte", "na", "sol", "sa%de"}

ScenarioPedro == "Pedro II inaugura nova ponte na capital"

KeywordLeads == {"", ScenarioPedro}

KeywordHeadlines ==
    {Join((IF lead = "" THEN <<>> ELSE <<lead>>) \o tail) :
        lead \in KeywordLeads, tail \in SeqsUpTo(KeywordVocab, MaxKeywordWords)} \ {""}

KeywordsInit ==
    /\ pc = "start"
    /\ title \in KeywordHeadlines
    /\ oracle = NoAnswer /\ shortener = "none" /\ shortened = "" /\ again = ""
    /\ wordsArr = <<>> /\ boldStart = -1 /\ boldLength = 0
    /\ maxWidth = 0 /\ maxLines = 0 /\ built = <<>>
    /\ CardIdle

\* src/server.js 966-1007 with no emphasis of the caller's: titleWords and
\* the span of findKeywords
FindKeywords ==
    /\ pc = "start"
    /\ wordsArr' = Split(title)
    /\ LET result == findKeywords(title)
       IN  /\ boldStart' = result.boldStart
           /\ boldLength' = result.boldLength
    /\ pc' = "found"
    /\ UNCHANGED <<maxWidth, maxLines, built, shortenVars, cardVars>>

KeywordsNext == FindKeywords

SpecKeywords == KeywordsInit /\ [][KeywordsNext]_vars

-----------------------------------------------------------------------------
\* The caller's emphasis: src/server.js 966-1007 (generateInstagramCard),
\* the same lines as src/unnamed/part_001 951-986.

\* the largest word index a caller sends in {inicio, fim}
MaxIndex == 4

IndexRange == (0 - MaxIndex) .. MaxIndex

IndexDestaques ==
    {[kind |-> "indices", inicio |-> i, fim |-> f, text |-> ""] :
        i \in IndexRange, f \in IndexRange}

TextDestaques ==
    {[kind |-> "text", inicio |-> 0, fim |-> 0, text |-> t] :
        t \in {"pedro ii", "nova  ponte", "ponte", "sol", "capital federal", "a"}}

EmphasisHeadlines ==
    {ScenarioPedro, "sol", "ponte nova", "Pedro II na ponte", "A ponte  nova"}

EmphasisInit ==
    /\ pc = "start"
    /\ title \in EmphasisHeadlines
    /\ oracle = NoAnswer /\ shortener = "none" /\ shortened = "" /\ again = ""
    /\ wordsArr = <<>> /\ boldStart = -1 /\ boldLength = 0
    /\ maxWidth = 0 /\ maxLines = 0 /\ built = <<>>
    /\ destaque \in {NoDestaque} \cup IndexDestaques \cup TextDestaques
    /\ OracleIdle /\ ColorIdle /\ RouteIdle
    /\ TagIdle /\ PublicityIdle /\ PublishIdle /\ StageIdle

\* src/server.js 973-981: the emphasis given as {inicio, fim}
IndexOverride ==
    /\ pc = "start"
    /\ destaque.kind = "indices"
    /\ wordsArr' = Split(title)
    /\ boldStart' = Max(0, destaque.inicio)
    /\ boldLength' = Max(1, destaque.fim - destaque.inicio + 1)
    /\ pc' = "indexed"
    /\ UNCHANGED <<maxWidth, maxLines, built, shortenVars, cardVars>>

\* filter(w => w.length > 0)
NonEmpty(ws) == SelectSeq(ws, LAMBDA w : w # "")

\* src/server.js 982-1001: the emphasis given as a text searched in the title
TextOverride ==
    /\ pc = "start"
    /\ destaque.kind = "text"
    /\ wordsArr' = Split(title)
    /\ LET index == IndexOf(ToLower(title), ToLower(destaque.text)) - 1
           wordsBeforeDestaque == NonEmpty(Split(Trim(Slice(title, 0, index))))
           palavrasDestaque == NonEmpty(Split(destaque.text))
           result == findKeywords(title)
       IN  IF index # -1
           THEN /\ boldStart' = Len(wordsBeforeDestaque)
                /\ boldLength' = Len(palavrasDestaque)
           ELSE /\ boldStart' = result.boldStart
                /\ boldLength' = result.boldLength
    /\ pc' = "texted"
    /\ UNCHANGED <<maxWidth, maxLines, built, shortenVars, cardVars>>

\* src/server.js 1002-1007: no emphasis of the caller's
AutoEmphasis ==
    /\ pc = "start"
    /\ destaque.kind = "none"
    /\ wordsArr' = Split(title)
    /\ LET result == findKeywords(title)
       IN  /\ boldStart' = result.boldStart
           /\ boldLength' = result.boldLength
    /\ pc' = "auto"
    /\ UNCHANGED <<maxWidth, maxLines, built, shortenVars, cardVars>>

EmphasisNext == IndexOverride \/ TextOverride \/ AutoEmphasis

SpecEmphasis == EmphasisInit /\ [][EmphasisNext]_vars

\* C11: when the emphasis is given as word indices {inicio, fim}, the span
\* used satisfies 0 <= start, length >= 1 and start + length <= word count.
C11_IndexSpanClamped ==
    pc = "indexed" =>
      /\ boldStart >= 0
      /\ boldLength >= 1
      /\ boldStart + boldLength <= Len(wordsArr)


-----------------------------------------------------------------------------
\* Outcomes of the request to the title oracle: makeHttpsRequest
\* (src/server.js 81-137) and the try/catch of optimizeTitle
\* (src/server.js 364-460, src/unnamed/part_001 285-358).

\* transport: req.on('error'), resolved with ok false
\* status: a status outside 200..299
\* unparseable: JSON.parse fails and json() answers {}
\* null: the body is the JSON text null
\* nochoices: an object without choices
\* emptychoices: choices is []
\* nocontent: choices[0] without message.content
\* nonstring: message.content is a number or an array
\* text: message.content is a string
ReplyKinds ==
    {"transport", "status", "unparseable", "null", "nochoices", "emptychoices",
     "nocontent", "nonstring", "text"}

ReplyTexts ==
    {"", "  ",
     "\"Prefeitura de Teresina anuncia nova obra de infraestrutura para o centro...\"",
     "Jos{ Am^ncio Neto { nomeado coordenador"}

Replies ==
    {[kind |-> k, content |-> ""] : k \in ReplyKinds \ {"text"}}
        \cup {[kind |-> "text", content |-> c] : c \in ReplyTexts}

\* how a block of statements ends
Returned(v) == [kind |-> "return", value |-> v]
Thrown == [kind |-> "throw", value |-> ""]
FellThrough == [kind |-> "end", value |-> ""]

\* response.ok of makeHttpsRequest
ResponseOk(r) == r.kind \notin {"transport", "status"}

\* src/server.js 365-447: the try block of optimizeTitle
optimizeTitleTry(t, r) ==
    IF ~ResponseOk(r) THEN FellThrough
    ELSE IF r.kind \in {"unparseable", "null", "nochoices"} THEN Thrown
    ELSE IF r.kind \in {"emptychoices", "nocontent"} THEN FellThrough
    ELSE IF r.kind = "nonstring" THEN Thrown
    ELSE LET optimizedTitle == Trim(r.content)
         IN  IF Len(optimizedTitle) > 0
             THEN Returned(fixNominationEndings(
                      finalizeHeadline(StripOuterQuotes(optimizedTitle), TitleBudget)))
             ELSE FellThrough

\* src/server.js 448-451: catch (error) logs and goes on
optimizeTitleCatch_Propagate(attempt) == attempt
optimizeTitleCatch(attempt) ==
    IF attempt.kind = "throw" THEN FellThrough ELSE attempt

\* src/server.js 364-460: optimizeTitle with the outcome of its request
optimizeTitleCall(t, r) ==
    LET attempt == optimizeTitleCatch(optimizeTitleTry(t, r))
    IN  IF attempt.kind = "throw" THEN [threw |-> TRUE, value |-> ""]
        ELSE IF attempt.kind = "return" THEN [threw |-> FALSE, value |-> attempt.value]
        ELSE [threw |-> FALSE,
              value |-> fixNominationEndings(finalizeHeadline(t, TitleBudget))]

\* src/unnamed/part_001 302-353: the try block of optimizeTitle
optimizeTitleMinimalTry(t, hasKey, r) ==
    IF ~hasKey THEN Returned(conservative(t))
    ELSE IF ~ResponseOk(r) THEN Returned(conservative(t))
    ELSE IF r.kind \in {"null", "nonstring"} THEN Thrown
    ELSE LET content == IF r.kind = "text" THEN r.content ELSE ""
             out == NFC(Trim(CollapseSpaces(RemoveQuotes(
                        RemoveEllipsisRuns(decodeHtmlEntitiesAll(Trim(content)))))))
         IN  IF out = "" THEN Returned(conservative(t))
             ELSE Returned(SoftClamp(out))

\* src/unnamed/part_001 285-358: optimizeTitle with the outcome of its
\* request; catch (e) returns conservative()
optimizeTitleMinimalCall(t, hasKey, r) ==
    LET attempt == optimizeTitleMinimalTry(t, hasKey, r)
    IN  IF attempt.kind = "throw"
        THEN [threw |-> FALSE, value |-> conservative(t)]
        ELSE [threw |-> FALSE, value |-> attempt.value]

OracleHeadlines ==
    ({Join((IF lead = "" THEN <<>> ELSE <<lead>>) \o tail) :
        lead \in Leads, tail \in SeqsUpTo(Fragments, 1)} \cup {ScenarioA}) \ {""}

OracleInit ==
    /\ pc = "start"
    /\ title \in OracleHeadlines
    /\ oracle = NoAnswer /\ shortener = "none" /\ shortened = "" /\ again = ""
    /\ wordsArr = <<>> /\ boldStart = -1 /\ boldLength = 0
    /\ maxWidth = 0 /\ maxLines = 0 /\ built = <<>>
    /\ CardIdle

\* src/server.js optimizeTitle, every outcome of the request
OptimizeTitleCall ==
    /\ pc = "start"
    /\ \E r \in Replies :
          LET result == optimizeTitleCall(title, r)
          IN  /\ reply' = r
              /\ threw' = result.threw
              /\ shortened' = result.value
    /\ shortener' = "optimizeTitle"
    /\ pc' = "answered"
    /\ UNCHANGED <<title, oracle, again, wrapVars, destaque, groqHL, colorVars, tagVars, publicityVars, publishVars, stageVars, routeVars>>

\* part_001 optimizeTitle, every outcome of the request
OptimizeTitleMinimalCall ==
    /\ pc = "start"
    /\ \E call \in {<<FALSE, NoReply>>} \cup ({TRUE} \X Replies) :
          LET result == optimizeTitleMinimalCall(title, call[1], call[2])
          IN  /\ reply' = call[2]
              /\ threw' = result.threw
              /\ shortened' = result.value
    /\ shortener' = "conservative"
    /\ pc' = "answered"
    /\ UNCHANGED <<title, oracle, again, wrapVars, destaque, groqHL, colorVars, tagVars, publicityVars, publishVars, stageVars, routeVars>>

OracleNext == OptimizeTitleCall \/ OptimizeTitleMinimalCall

SpecOracle == OracleInit /\ [][OracleNext]_vars

\* the oracle-free shortening of the original title by the shortener called
LocalShortening ==
    IF shortener = "optimizeTitle"
    THEN fixNominationEndings(finalizeHeadline(title, TitleBudget))
    ELSE conservative(title)

\* the request brought no headline text
FailureOutcome == reply.kind # "text" \/ Trim(reply.content) = ""

\* C12: for every outcome of the request to the title oracle optimizeTitle
\* ends without an exception, and on every failure outcome what it returns
\* is the oracle-free shortening of the original title.
C12_NeverThrowsFallsBack ==
    pc = "answered" =>
      /\ ~threw
      /\ FailureOutcome => shortened = LocalShortening

\* a reply on which the try block throws has been answered by the fallback
C12_Witness ==
    /\ pc = "answered"
    /\ shortener = "optimizeTitle"
    /\ reply.kind = "nochoices"
    /\ title = ScenarioA
    /\ shortened = LocalShortening
    /\ shortened # title


-----------------------------------------------------------------------------
\* Headlines already within the budget: src/server.js finalizeHeadline
\* 462-523 and src/unnamed/part_000 truncateIntelligently 58-64.

\* the most suffixes appended to a lead
MaxSuffixes == 2

WithinLeads ==
    {"Prefeitura de Teresina anuncia nova obra",
     "Governador anuncia investimento milion@rio para a sa%de",
     "Jos{ Am^ncio Neto"}

Suffixes ==
    {" - veja", ": detalhes", "...", " { nomeado", "  no centro", " da",
     " para o centro da cidade"}

WithinHeadlines ==
    {lead \o Concat(tail) : lead \in WithinLeads, tail \in SeqsUpTo(Suffixes, MaxSuffixes)}

WithinInit ==
    /\ pc = "start"
    /\ title \in WithinHeadlines
    /\ oracle = NoAnswer /\ shortener = "none" /\ shortened = "" /\ again = ""
    /\ wordsArr = <<>> /\ boldStart = -1 /\ boldLength = 0
    /\ maxWidth = 0 /\ maxLines = 0 /\ built = <<>>
    /\ CardIdle

\* src/server.js finalizeHeadline(title, 70)
FinalizeTitle ==
    /\ pc = "start"
    /\ shortened' = finalizeHeadline(title, TitleBudget)
    /\ shortener' = "finalizeHeadline"
    /\ pc' = "kept"
    /\ UNCHANGED <<title, oracle, again, wrapVars, cardVars>>

\* part_000 truncateIntelligently(title, 55)
TruncateTitle ==
    /\ pc = "start"
    /\ shortened' = truncateIntelligently(title, TruncateBudget)
    /\ shortener' = "truncateIntelligently"
    /\ pc' = "kept"
    /\ UNCHANGED <<title, oracle, again, wrapVars, cardVars>>

WithinNext == FinalizeTitle \/ TruncateTitle

SpecWithin == WithinInit /\ [][WithinNext]_vars

\* the headline's length is at most the budget of the shortener called
AlreadyWithin ==
    Len(title) <= (IF shortener = "finalizeHeadline" THEN TitleBudget
                   ELSE TruncateBudget)

\* the headline has a subtitle separator after a head of at least 60% of
\* the budget
HasLongHeadSeparator ==
    \E k \in 1 .. Len(splitters) :
        LET at == IndexOf(title, splitters[k])
        IN  at > 0 /\ (at - 1) * 10 >= TitleBudget * 6

\* the headline has nothing finalizeHeadline normalizes, cuts or repairs
Settled ==
    /\ ~Includes(title, ELLIPSIS) /\ ~Includes(title, "...")
    /\ Trim(CollapseSpaces(title)) = title
    /\ ~HasLongHeadSeparator
    /\ ToLower(LastWord(title)) \notin badEndings
    /\ ~EndsInNomeado(title)

IsPrefix(a, b) == Len(a) <= Len(b) /\ SubSeq(b, 1, Len(a)) = a

-----------------------------------------------------------------------------
\* Scenario C: automatic emphasis on "Pedro II inaugura nova ponte na capital"

PedroWords == <<"Pedro", "II", "inaugura", "nova", "ponte", "na", "capital">>

\* the windows findKeywords scores: <<start, length>>, start from 0
WindowsOf(words) ==
    {w \in (0 .. Len(words) - 1) \X (2 .. Len(words)) :
        w[2] <= Min(maxHighlightWords(words), Len(words) - w[1])}

WindowWords(words, w) == SubSeq(words, w[1] + 1, w[1] + w[2])

\* C14: for the words Pedro, II, inaugura, nova, ponte, na, capital the
\* automatic selection returns start 0 and length 2, and the window
\* "Pedro II" scores strictly higher than every other valid window.
C14_PedroIIWins ==
    (pc = "auto" /\ title = ScenarioPedro) =>
      /\ wordsArr = PedroWords
      /\ boldStart = 0 /\ boldLength = 2
      /\ \A w \in WindowsOf(wordsArr) \ {<<0, 2>>} :
            validSequence(WindowWords(wordsArr, w)) =>
               sequenceScore(WindowWords(wordsArr, w), w[1])
                  < sequenceScore(WindowWords(wordsArr, <<0, 2>>), 0)

\* the selection was made on Scenario C, which has other valid windows
C14_Witness ==
    /\ pc = "auto" /\ title = ScenarioPedro
    /\ boldStart = 0 /\ boldLength = 2
    /\ \E w \in WindowsOf(wordsArr) \ {<<0, 2>>} :
          /\ validSequence(WindowWords(wordsArr, w))
          /\ sequenceScore(WindowWords(wordsArr, w), w[1]) > 0


-----------------------------------------------------------------------------
\* Color of the tag bar and size of the canvas: src/server.js 719, 788-803

\* editorialColors, the object literal
editorialColors ==
    << <<"pol/cia", "#dc2626">>, <<"pol/tica", "#2563eb">>,
       <<"esporte", "#16a34a">>, <<"entretenimento", "#9333ea">>,
       <<"geral", "#ea580c">>, <<"default", "#ea580c">> >>

\* the function members every object literal inherits from Object.prototype
ObjectPrototypeFunctions ==
    {"constructor", "toString", "toLocaleString", "valueOf", "hasOwnProperty",
     "isPrototypeOf", "propertyIsEnumerable", "__defineGetter__",
     "__defineSetter__", "__lookupGetter__", "__lookupSetter__"}

\* object[key] for an object literal with the own properties own
GetProperty(own, key) ==
    LET hits == {k \in 1 .. Len(own) : own[k][1] = key}
    IN  IF hits # {} THEN JsString(own[CHOOSE k \in hits : TRUE][2])
        ELSE IF key \in ObjectPrototypeFunctions THEN JsFunction(key)
        ELSE IF key = "__proto__" THEN JsObject("Object.prototype")
        ELSE JsUndefined

\* ToBoolean
Truthy(v) == v.type # "undefined" /\ ~(v.type = "string" /\ v.text = "")

\* a || b
JsOr(a, b) == IF Truthy(a) THEN a ELSE b

\* src/server.js 799-800
barColorOf(cat) ==
    LET categoriaParaCor == JsOr(cat, JsString("geral"))
    IN  JsOr(GetProperty(editorialColors, categoriaParaCor.text),
             GetProperty(editorialColors, "default"))

Categories ==
    {JsUndefined} \cup
    {JsString(c) : c \in {"", "pol/cia", "pol/tica", "esporte", "entretenimento",
                          "geral", "default", "desconhecida", "Pol/cia",
                          "economia", "__proto__"} \cup ObjectPrototypeFunctions}

CardTypes == {JsUndefined, JsString("card"), JsString("story")}

ColorInit ==
    /\ pc = "start"
    /\ title = "" /\ oracle = NoAnswer /\ shortener = "none"
    /\ shortened = "" /\ again = ""
    /\ wordsArr = <<>> /\ boldStart = -1 /\ boldLength = 0
    /\ maxWidth = 0 /\ maxLines = 0 /\ built = <<>>
    /\ DestaqueIdle /\ OracleIdle /\ RouteIdle
    /\ TagIdle /\ PublicityIdle /\ PublishIdle /\ StageIdle
    /\ categoria \in Categories
    /\ cardType \in CardTypes
    /\ barColor = JsUndefined /\ dimensions = <<0, 0>>

\* src/server.js 719 (type = 'card'), 799-803
ResolveColor ==
    /\ pc = "start"
    /\ barColor' = barColorOf(categoria)
    /\ LET type == IF cardType = JsUndefined THEN JsString("card") ELSE cardType
       IN  dimensions' = IF type = JsString("story") THEN <<1080, 1920>>
                         ELSE <<1080, 1350>>
    /\ pc' = "colored"
    /\ UNCHANGED <<categoria, cardType, destaque, oracleVars, routeVars, tagVars,
                   publicityVars, publishVars, stageVars, wrapVars, shortenVars>>

ColorNext == ResolveColor

SpecColor == ColorInit /\ [][ColorNext]_vars

ColorStrings == {"#dc2626", "#2563eb", "#16a34a", "#9333ea", "#ea580c"}

\* C15: the five categories resolve to their colors, every other category
\* value (unknown, empty or absent) resolves to the default #ea580c, and the
\* resolved color is always one of the five color strings.
C15_ColorTotal ==
    pc = "colored" =>
      /\ barColor.type = "string" /\ barColor.text \in ColorStrings
      /\ categoria = JsString("pol/cia") => barColor.text = "#dc2626"
      /\ categoria = JsString("pol/tica") => barColor.text = "#2563eb"
      /\ categoria = JsString("esporte") => barColor.text = "#16a34a"
      /\ categoria = JsString("entretenimento") => barColor.text = "#9333ea"
      /\ categoria = JsString("geral") => barColor.text = "#ea580c"
      /\ categoria \notin {JsString(c) : c \in {"pol/cia", "pol/tica", "esporte",
                                                 "entretenimento", "geral"}}
            => barColor.text = "#ea580c"


-----------------------------------------------------------------------------
\* Emphasis suggested by the oracle: src/unnamed/part_001
\* generateGroqHighlight 888-950 and its use 987-1001.
\* The braces of the answer's JSON text are written < and >, the letters
\* { and } standing for accented letters in this module.

LEFT_BRACE == "<"
RIGHT_BRACE == ">"

\* raw.match(/\{[\s\S]*\}/): from the first { to the last }, "" if none
BraceMatch(raw) ==
    LET i == IndexOf(raw, LEFT_BRACE)
        j == LastIndex(LAMBDA k : SubSeq(raw, k, k) = RIGHT_BRACE, 1, Len(raw))
    IN  IF i > 0 /\ j > i THEN SubSeq(raw, i, j) ELSE ""

\* the two ways the answers write { "highlight": "..." }
JsonOpenings ==
    {LEFT_BRACE \o " \"highlight\": \"", LEFT_BRACE \o "\"highlight\":\""}
JsonClosings == {"\" " \o RIGHT_BRACE, "\"" \o RIGHT_BRACE}

\* JSON.parse(m[0]) followed by obj.highlight, for the answers of
\* HighlightTexts: an object with a highlight string, the empty object, or
\* a SyntaxError
JsonParse(text) ==
    LET fits == {oc \in JsonOpenings \X JsonClosings :
                    /\ Len(text) >= Len(oc[1]) + Len(oc[2])
                    /\ SubSeq(text, 1, Len(oc[1])) = oc[1]
                    /\ SubSeq(text, Len(text) - Len(oc[2]) + 1, Len(text)) = oc[2]
                    /\ ~Includes(SubSeq(text, Len(oc[1]) + 1, Len(text) - Len(oc[2])),
                                 "\"")}
    IN  IF fits # {}
        THEN LET oc == CHOOSE x \in fits : TRUE
             IN  [ok |-> TRUE,
                  highlight |-> SubSeq(text, Len(oc[1]) + 1, Len(text) - Len(oc[2]))]
        ELSE IF text = LEFT_BRACE \o RIGHT_BRACE
        THEN [ok |-> TRUE, highlight |-> ""]
        ELSE [ok |-> FALSE, highlight |-> ""]

\* replace(/^"|"$/g, '')
StripOuterDoubleQuotes(s) ==
    LET a == IF CharAt(s, 1) = "\"" THEN Drop(s, 1) ELSE s
    IN  IF CharAt(a, Len(a)) = "\"" THEN SubSeq(a, 1, Len(a) - 1) ELSE a

\* part_001 908-923: the suggestion read out of the answer's content
suggestionOf(raw) ==
    LET m == BraceMatch(raw)
        obj == JsonParse(m)
        parsed == IF m # "" /\ obj.ok THEN obj.highlight ELSE ""
        hl == IF parsed = "" THEN StripOuterDoubleQuotes(raw) ELSE parsed
    IN  Trim(CollapseSpaces(decodeHtmlEntitiesAll(hl)))

\* split(' ').filter(Boolean).map(w => normalize(w))
NormWords(s) ==
    LET ws == NonEmpty(Split(s)) IN [i \in 1 .. Len(ws) |-> Folded(ws[i])]

\* the inner loop of part_001 934-938 at i (from 0)
\* mutant: only the first word is compared
matchesAt_FirstWord(normTitle, normHl, i) == normTitle[i + 1] = normHl[1]
matchesAt(normTitle, normHl, i) ==
    \A j \in 0 .. Len(normHl) - 1 : normTitle[i + j + 1] = normHl[j + 1]

\* part_001 926-945: the span of a suggestion that is not empty
spanOf(text, hl) ==
    LET normTitle == NormWords(text)
        normHl == NormWords(hl)
        hits == {i \in 0 .. Len(normTitle) - Len(normHl) :
                    matchesAt(normTitle, normHl, i)}
    IN  IF hits = {} THEN NullHighlight
        ELSE [null |-> FALSE, boldStart |-> MinFrom(hits, 0),
              boldLength |-> Min(2, Max(1, Len(normHl)))]

\* part_001 889-908: the try block up to raw
highlightTry(text, hasKey, r) ==
    IF ~hasKey THEN Returned(NullHighlight)
    ELSE IF ~ResponseOk(r) THEN Returned(NullHighlight)
    ELSE IF r.kind \in {"null", "nonstring"} THEN Thrown
    ELSE LET raw == Trim(IF r.kind = "text" THEN r.content ELSE "")
             hl == suggestionOf(raw)
         IN  IF hl = "" THEN Returned(NullHighlight)
             ELSE Returned(spanOf(text, hl))

\* part_001 888-950: generateGroqHighlight; catch (e) returns null
generateGroqHighlight(text, hasKey, r) ==
    LET attempt == highlightTry(text, hasKey, r)
    IN  IF attempt.kind = "throw" THEN NullHighlight ELSE attempt.value

Suggested(words) ==
    {LEFT_BRACE \o " \"highlight\": \"" \o words \o "\" " \o RIGHT_BRACE}

HighlightTexts ==
    UNION {Suggested(w) : w \in {"Pedro II", "pedro ii", "SAUDE ganha", "Pedro ponte",
                                 "inaugura nova ponte", "ponte", "na capital federal",
                                 ""}}
    \cup {LEFT_BRACE \o "\"highlight\":\"nova ponte\"" \o RIGHT_BRACE,
          "Resposta: " \o LEFT_BRACE \o " \"highlight\": \"nova ponte\" " \o RIGHT_BRACE,
          LEFT_BRACE \o RIGHT_BRACE,
          LEFT_BRACE \o " highlight: nova ponte " \o RIGHT_BRACE,
          "\"nova ponte\"", "Sa&uacute;de  ganha", "Destaque: Pedro II", "capital", ""}

HighlightReplies ==
    {[kind |-> k, content |-> ""] : k \in ReplyKinds \ {"text"}}
        \cup {[kind |-> "text", content |-> c] : c \in HighlightTexts}

HighlightHeadlines ==
    {ScenarioPedro, "Sa%de ganha nova ponte na capital",
     "ponte velha e nova ponte na capital", "sol", "Pedro II"}

HighlightInit ==
    /\ pc = "start"
    /\ title \in HighlightHeadlines
    /\ oracle = NoAnswer /\ shortener = "none" /\ shortened = "" /\ again = ""
    /\ wordsArr = <<>> /\ boldStart = -1 /\ boldLength = 0
    /\ maxWidth = 0 /\ maxLines = 0 /\ built = <<>>
    /\ CardIdle

\* part_001 990-999: the oracle's span when it gave one, the local
\* selection otherwise
SpanOr(hl, result) ==
    IF ~hl.null /\ hl.boldStart >= 0
    THEN [boldStart |-> hl.boldStart, boldLength |-> hl.boldLength]
    ELSE [boldStart |-> result.boldStart, boldLength |-> result.boldLength]

\* boldStart = span.boldStart; boldLength = span.boldLength
SpanIs(span) == boldStart' = span.boldStart /\ boldLength' = span.boldLength

\* part_001 953-956, 987-1001: no emphasis of the caller's; the oracle
\* first, findKeywords otherwise
SuggestOrFindKeywords ==
    /\ pc = "start"
    /\ destaque.kind = "none"
    /\ wordsArr' = Split(title)
    /\ \E call \in {<<FALSE, NoReply>>} \cup ({TRUE} \X HighlightReplies) :
          /\ reply' = call[2]
          /\ groqHL' = generateGroqHighlight(title, call[1], call[2])
          /\ SpanIs(SpanOr(generateGroqHighlight(title, call[1], call[2]),
                           findKeywords(title)))
    /\ pc' = "suggested"
    /\ UNCHANGED <<maxWidth, maxLines, built, shortenVars, destaque, threw, colorVars, tagVars, publicityVars, publishVars, stageVars, routeVars>>

HighlightNext == SuggestOrFindKeywords

SpecHighlight == HighlightInit /\ [][HighlightNext]_vars

\* the words of the suggestion in the answer, folded
SuggestionWords ==
    IF reply.kind = "text" THEN NormWords(suggestionOf(Trim(reply.content)))
    ELSE <<>>

\* the suggestion's words are the headline's words from i (from 0) on
OccursAt(i) ==
    /\ Len(SuggestionWords) >= 1
    /\ i + Len(SuggestionWords) <= Len(NormWords(title))
    /\ SubSeq(NormWords(title), i + 1, i + Len(SuggestionWords)) = SuggestionWords

\* C16: a suggestion is accepted only if its words, compared without case
\* and accents, are consecutive words of the headline; then start is the
\* index of the first such occurrence, 1 <= length <= 2 and start + length
\* <= word count; otherwise generateGroqHighlight returns null and the span
\* is that of findKeywords.
C16_SuggestionValidated ==
    pc = "suggested" =>
      /\ ~groqHL.null =>
            /\ OccursAt(groqHL.boldStart)
            /\ \A i \in 0 .. groqHL.boldStart - 1 : ~OccursAt(i)
            /\ boldStart = groqHL.boldStart /\ boldLength = groqHL.boldLength
            /\ boldLength >= 1 /\ boldLength <= 2
            /\ boldStart + boldLength <= Len(wordsArr)
      /\ (\A i \in 0 .. Len(wordsArr) : ~OccursAt(i)) => groqHL.null
      /\ groqHL.null =>
            /\ boldStart = findKeywords(title).boldStart
            /\ boldLength = findKeywords(title).boldLength

\* a suggestion of three consecutive words of the headline was accepted
\* where they occur, with a span of two words
C16_Witness ==
    /\ pc = "suggested" /\ ~groqHL.null
    /\ Len(SuggestionWords) = 3
    /\ boldStart = 2 /\ boldLength = 2


-----------------------------------------------------------------------------
\* The card request: src/server.js /api/generate-card 1823-1950 with
\* generateCaption 607-715.

\* the entities of decodeHtmlEntitiesUpload and decodeHtmlEntitiesFallback
\* whose value is a character of the module: the first sixteen of entities
uploadEntities == SubSeq(entities, 1, 16)

UploadEntityValue(entity) ==
    LET hits == {k \in 1 .. Len(uploadEntities) : uploadEntities[k][1] = entity}
    IN  IF hits = {} THEN entity ELSE uploadEntities[CHOOSE k \in hits : TRUE][2]

\* length of the match of /&[a-zA-Z]+;/ at position i, 0 if none
LetterEntityAt(s, i) ==
    IF SubSeq(s, i, i) # "&" THEN 0
    ELSE LET stop == FirstIndex(LAMBDA k : ~(IsAlnumAt(s, k)
                                            /\ SubSeq(s, k, k) \notin CharsOf(DigitChars)),
                                i + 1, Len(s))
         IN  IF stop > i + 1 /\ SubSeq(s, stop, stop) = ";" THEN stop - i + 1 ELSE 0

RECURSIVE DecodeUploadWalk(_, _, _)
DecodeUploadWalk(s, starts, i) ==
    LET j == MinFrom(starts, i)
    IN  IF j = 0 THEN SubSeq(s, i, Len(s))
        ELSE LET n == LetterEntityAt(s, j)
             IN  SubSeq(s, i, j - 1) \o UploadEntityValue(SubSeq(s, j, j + n - 1))
                 \o DecodeUploadWalk(s, starts, j + n)

\* text.replace(/&[a-zA-Z]+;/g, entity => entities[entity] || entity)
decodeHtmlEntitiesUpload(text) ==
    DecodeUploadWalk(text, {j \in 1 .. Len(text) : LetterEntityAt(text, j) > 0}, 1)

\* String.prototype.split('\n')
SplitLines(s) == SplitWalk(s, {j \in 1 .. Len(s) : SubSeq(s, j, j) = "\n"}, 1)

\* Array.prototype.join('\n\n')
RECURSIVE JoinBlocks(_)
JoinBlocks(parts) ==
    IF parts = <<>> THEN ""
    ELSE IF Len(parts) = 1 THEN parts[1]
    ELSE parts[1] \o "\n\n" \o JoinBlocks(Tail(parts))

\* the fallback caption after its first line; the pin, the red circle and
\* the number sign are written (pin), (circle) and (hash)
fallbackCaptionTail ==
    "\n\nConfira todos os detalhes da not/cia."
    \o "\n\n(pin) Leia a mat{ria completa em www.r10piaui.com"
    \o "\n\n(circle) R10 Piau/ + D@ gosto de ver!"
    \o "\n\n(hash)R10Piau/ (hash)Not/cias (hash)Piau/"

\* src/server.js 608-681: the try block of generateCaption
captionTry(t, r) ==
    IF ~ResponseOk(r) THEN FellThrough
    ELSE IF r.kind \in {"unparseable", "null", "nochoices"} THEN Thrown
    ELSE IF r.kind \in {"emptychoices", "nocontent"} THEN FellThrough
    ELSE IF r.kind = "nonstring" THEN Thrown
    ELSE LET text == Trim(r.content)
             lines == SplitLines(RemoveEllipses(text))
             parts == NonEmpty([i \in 1 .. Len(lines) |-> Trim(lines[i])])
             titled == IF Len(parts) > 0 THEN <<t>> \o Tail(parts) ELSE parts
         IN  IF Len(text) > 0 THEN Returned(JoinBlocks(titled)) ELSE FellThrough

\* src/server.js 607-715: generateCaption with the outcome of its request
generateCaption(t, r) ==
    LET attempt == captionTry(t, r)
    IN  IF attempt.kind = "return" THEN attempt.value
        ELSE decodeHtmlEntitiesUpload(t) \o fallbackCaptionTail

ManualFlags ==
    {JsUndefined, JsString("1"), JsString("true"), JsString("0"), JsString("on")}

\* req.body.useManualTitle === '1' || req.body.useManualTitle === 'true'
IsManual(flag) == flag \in {JsString("1"), JsString("true")}

RouteTitles ==
    {"Sa&uacute;de ganha nova ponte", " Pedro II inaugura  ponte... ", ScenarioA}

CaptionTexts ==
    {"Sa%de ganha ponte\nA obra foi entregue hoje...\n\n(hash)R10Piau/",
     "Uma linha", "...", ELLIPSIS, "... \n " \o ELLIPSIS, "", " \n "}

CaptionReplies ==
    {[kind |-> k, content |-> ""] : k \in ReplyKinds \ {"text"}}
        \cup {[kind |-> "text", content |-> c] : c \in CaptionTexts}

RouteInit ==
    /\ pc = "start"
    /\ title \in RouteTitles
    /\ oracle = NoAnswer /\ shortener = "none" /\ shortened = "" /\ again = ""
    /\ wordsArr = <<>> /\ boldStart = -1 /\ boldLength = 0
    /\ maxWidth = 0 /\ maxLines = 0 /\ built = <<>>
    /\ DestaqueIdle /\ OracleIdle /\ ColorIdle
    /\ TagIdle /\ PublicityIdle /\ PublishIdle /\ StageIdle
    /\ useManualTitle \in ManualFlags
    /\ optimizeCalls = 0 /\ captionReply = NoReply /\ caption = ""

\* src/server.js 1882-1889: the title of the card
CardTitle ==
    /\ pc = "start"
    /\ IF IsManual(useManualTitle)
       THEN /\ shortened' = Trim(title)
            /\ UNCHANGED <<reply, threw, optimizeCalls>>
       ELSE \E r \in Replies :
               LET result == optimizeTitleCall(title, r)
               IN  /\ reply' = r
                   /\ threw' = result.threw
                   /\ shortened' = result.value
                   /\ optimizeCalls' = optimizeCalls + 1
    /\ shortener' = IF IsManual(useManualTitle) THEN "manual" ELSE "optimizeTitle"
    /\ pc' = "titled"
    /\ UNCHANGED <<title, oracle, again, wrapVars, destaque, groqHL, colorVars, tagVars, publicityVars, publishVars, stageVars,
                   useManualTitle, captionReply, caption>>

\* src/unnamed/part_001 2156-2162: the title of the card
CardTitleMinimal ==
    /\ pc = "start"
    /\ IF IsManual(useManualTitle)
       THEN /\ shortened' = normalize(title)
            /\ UNCHANGED <<reply, threw, optimizeCalls>>
       ELSE \E call \in {<<FALSE, NoReply>>} \cup ({TRUE} \X Replies) :
               LET result == optimizeTitleMinimalCall(title, call[1], call[2])
               IN  /\ reply' = call[2]
                   /\ threw' = result.threw
                   /\ shortened' = result.value
                   /\ optimizeCalls' = optimizeCalls + 1
    /\ shortener' = IF IsManual(useManualTitle) THEN "normalize" ELSE "conservative"
    /\ pc' = "titled"
    /\ UNCHANGED <<title, oracle, again, wrapVars, destaque, groqHL, colorVars, tagVars, publicityVars, publishVars, stageVars,
                   useManualTitle, captionReply, caption>>

\* src/server.js 1913-1915: the caption of the full decoded title
CardCaption ==
    /\ pc = "titled"
    /\ shortener \in {"manual", "optimizeTitle"}
    /\ \E r \in CaptionReplies :
          /\ captionReply' = r
          /\ caption' = generateCaption(decodeHtmlEntitiesUpload(title), r)
    /\ pc' = "captioned"
    /\ UNCHANGED <<wrapVars, shortenVars, destaque, oracleVars, colorVars, tagVars, publicityVars, publishVars, stageVars,
                   useManualTitle, optimizeCalls>>

RouteNext == CardTitle \/ CardTitleMinimal \/ CardCaption

SpecRoute == RouteInit /\ [][RouteNext]_vars

\* the text before the first line break
FirstLine(s) == SplitLines(s)[1]

\* C17: for every answer of the oracle the caption of a card request is not
\* empty and its first line is the full decoded title that was submitted.
C17_CaptionHasFullTitle ==
    pc = "captioned" =>
      /\ caption # ""
      /\ FirstLine(caption) = decodeHtmlEntitiesUpload(title)


\* C18: when the request has useManualTitle "1" or "true", optimizeTitle is
\* not called during the request and the title drawn on the card is the
\* submitted title, trimmed.
C18_ManualTitleUntouched ==
    (pc \in {"titled", "captioned"} /\ IsManual(useManualTitle)) =>
      /\ optimizeCalls = 0
      /\ shortened = Trim(title)

-----------------------------------------------------------------------------
(* The tag (chapeu) of a card.  generateChapeu asks the text oracle for a  *)
(* tag and falls back to one made locally.  Every comparison it makes goes *)
(* through toUpperCase or through normalize on both sides, so a capital    *)
(* accented letter other than E acute is written here with the character   *)
(* of its small letter: "SA%DE" reads SAUDE with an acute accent on the U, *)
(* "ATEN#$O" reads ATENCAO with a cedilla and a tilde.                     *)

UpperMap == [c \in CharsOf(LowerChars) |->
               LET i == CHOOSE k \in 1 .. Len(LowerChars) : SubSeq(LowerChars, k, k) = c
               IN  SubSeq(UpperChars, i, i)]

ToUpperChar(c) == IF c \in DOMAIN UpperMap THEN UpperMap[c] ELSE c

\* String.prototype.toUpperCase, character by character over a .. b
RECURSIVE ToUpperRange(_, _, _)
ToUpperRange(s, a, b) ==
    IF a > b THEN ""
    ELSE IF a = b THEN ToUpperChar(SubSeq(s, a, a))
    ELSE LET mid == (a + b) \div 2
         IN  ToUpperRange(s, a, mid) \o ToUpperRange(s, mid + 1, b)

ToUpper(s) == ToUpperRange(s, 1, Len(s))

\* split(/\s+/)
SplitWs(s) == Split(CollapseSpaces(s))

\* split(/\s+/).filter(Boolean)
WordsWs(s) == NonEmpty(SplitWs(s))

\* new Set((title || '').split(/\s+/).map(w => normalize(w)).filter(Boolean))
titleWordsOf(t) == {Folded(w) : w \in {WordsWs(t)[i] : i \in 1 .. Len(WordsWs(t))}}

\* new Set((title || '').split(/\s+/).map(w => w.toUpperCase()))
titleTokensOf(t) == {ToUpper(SplitWs(t)[i]) : i \in 1 .. Len(SplitWs(t))}

\* src/unnamed/part_001 446-454, each term as the text writes it
bannedRaw ==
    {"NOT/CIA", "NOTICIA", "DESTAQUE", "URGENTE", "IMPORTANTE", "AGORA", "OFICIAL",
     "CONFIRMADO", "NOVIDADE", "%LTIMA HORA", "ULTIMA HORA", "ALERTA",
     "ATUALIZA#$O", "ATUALIZACAO", "VEJA", "ENTENDA", "AO VIVO", "EXCLUSIVO",
     "HEALTH", "NEWS", "BREAKING", "UPDATE", "POLITICS", "ECONOMY", "EDUCATION",
     "SECURITY", "GOVERNMENT", "PUBLIC", "PRIVATE", "FEDERAL", "STATE", "LOCAL",
     "BUSINESS", "FINANCE", "TECHNOLOGY", "SCIENCE", "SPORTS", "CULTURE",
     "SOCIETY", "ENVIRONMENT", "CLIMATE", "COVID", "PANDEMIC", "VACCINE",
     "HOSPITAL", "MEDICAL", "DOCTOR", "PATIENT", "TREATMENT", "EMERGENCY",
     "URGENT", "IMPORTANT", "OFFICIAL", "CONFIRMED", "LATEST", "EXCLUSIVE", "LIVE",
     "SALUD", "NOTICIAS", "ACTUALIZACI*N", "POL/TICA", "POL/TICAS", "ECONOM/A",
     "ECONOMIA", "EDUCACI*N", "EDUCACION", "SEGURIDAD", "GOBIERNO", "P%BLICO",
     "PRIVADO", "ESTATAL", "NEGOCIO", "FINANZAS", "TECNOLOG/A", "TECNOLOGIA",
     "CIENCIA", "DEPORTES", "CULTURA", "SOCIEDAD", "AMBIENTE", "CLIMA", "VACUNA",
     "M}DICO", "MEDICO", "PACIENTE", "TRATAMIENTO", "EMERGENCIA", "%LTIMO",
     "ULTIMO", "VIVO", "EN VIVO",
     "CAFETARIA", "ACTIVO", "ACTIVA", "INFORM@TICA", "POL/CIA"}

\* new Set(bannedRaw.map(normalize))
banned == {Folded(b) : b \in bannedRaw}

\* s.replace(/\bword\b/g, by)
RECURSIVE ReplaceWordWalk(_, _, _, _)
ReplaceWordWalk(s, word, by, i) ==
    LET j == FirstIndex(LAMBDA k : /\ StartsWithAt(s, k, word)
                                   /\ WordBoundary(s, k)
                                   /\ WordBoundary(s, k + Len(word)),
                        i, Len(s))
    IN  IF j = 0 THEN SubSeq(s, i, Len(s))
        ELSE SubSeq(s, i, j - 1) \o by \o ReplaceWordWalk(s, word, by, j + Len(word))

ReplaceWord(s, word, by) == ReplaceWordWalk(s, word, by, 1)

\* src/unnamed/part_001 457-460
mapPtPtToPtBr(s) ==
    ReplaceWord(ReplaceWord(ReplaceWord(s, "ACTIVO", "ATIVO"), "ACTIVA", "ATIVA"),
                "CAFETARIA", "CAFETERIA")

\* /\bword\b/.test(nt)
HasWord(nt, word) ==
    \E k \in 1 .. Len(nt) :
        /\ StartsWithAt(nt, k, word)
        /\ WordBoundary(nt, k)
        /\ WordBoundary(nt, k + Len(word))

\* /br-?\d+/.test(nt)
HasRoadNumber(nt) ==
    \E k \in 1 .. Len(nt) :
        /\ StartsWithAt(nt, k, "br")
        /\ \/ CharAt(nt, k + 2) \in CharsOf(DigitChars)
           \/ CharAt(nt, k + 2) = "-" /\ CharAt(nt, k + 3) \in CharsOf(DigitChars)

\* src/unnamed/part_001 468-482: the rules of deriveChapeuFromTitle in their
\* order.  They are tested on the normalized title, which has no accented
\* letter, so of each class such as [i<i acute>] only the plain letter can
\* match.  part: alternatives found anywhere; whole: alternatives between
\* two \b; road: the rule has br-?\d+ as an alternative.
themeRules ==
    << [part |-> {"policia", "homicidio", "assalto", "roubo", "furto", "delegacia",
                  "prisao", "flagrante"},
        whole |-> {}, road |-> FALSE, tag |-> "SEGURAN#A"],
       [part |-> {"justica", "tribunal", "juiz", "promotor", "defensoria"},
        whole |-> {"stf", "stj", "mpf", "mp"}, road |-> FALSE, tag |-> "JUDICI@RIO"],
       [part |-> {"eleicao", "prefeit", "vereador", "camara", "assembleia", "governo",
                  "congresso", "senado", "ministro", "politica"},
        whole |-> {}, road |-> FALSE, tag |-> "GEST$O"],
       [part |-> {"economia", "inflacao", "imposto", "salario", "comercio",
                  "industria", "preco", "dolar"},
        whole |-> {"pib"}, road |-> FALSE, tag |-> "ECONOMIA"],
       [part |-> {"saude", "hospital", "medic", "vacina", "covid", "dengue", "zika",
                  "hepatite"},
        whole |-> {"sus", "upa"}, road |-> FALSE, tag |-> "SA%DE"],
       [part |-> {"educacao", "escola", "professor", "aluno", "enem", "universidade"},
        whole |-> {"ifpi", "ufpi"}, road |-> FALSE, tag |-> "EDUCA#$O"],
       [part |-> {"esporte", "jogo", "campeonato", "copa", "atleta", "futebol",
                  "placar", "partida"},
        whole |-> {}, road |-> FALSE, tag |-> "ESPORTES"],
       [part |-> {"transito", "acidente", "rodovia", "detran", "engarrafamento"},
        whole |-> {}, road |-> TRUE, tag |-> "MOBILIDADE"],
       [part |-> {"clima", "chuva", "seca", "tempo", "calor", "frente fria", "inmet"},
        whole |-> {}, road |-> FALSE, tag |-> "CLIMA"],
       [part |-> {"cultura", "festival", "show", "teatro", "cinema", "museu",
                  "exposicao", "livro"},
        whole |-> {}, road |-> FALSE, tag |-> "CULTURA"],
       [part |-> {"tecnologia", "aplicativo", "celular", "internet", "startup",
                  "inteligencia artificial"},
        whole |-> {"ia"}, road |-> FALSE, tag |-> "TECNOLOGIA"],
       [part |-> {"transporte", "onibus", "metro", "aeroporto", "voo", "ferrovia"},
        whole |-> {}, road |-> FALSE, tag |-> "TRANSPORTE"],
       [part |-> {"infraestrutura", "obra", "ponte", "asfalto", "saneamento"},
        whole |-> {}, road |-> FALSE, tag |-> "INFRAESTRUTURA"],
       [part |-> {"energia", "apagao", "eletricidade", "combustivel", "gasolina",
                  "diesel"},
        whole |-> {}, road |-> FALSE, tag |-> "ENERGIA"],
       [part |-> {"turismo", "turista", "hotel", "resort", "ponto turistico"},
        whole |-> {}, road |-> FALSE, tag |-> "TURISMO"] >>

\* has(re) for the regular expression of one rule
RuleMatches(rule, nt) ==
    \/ IncludesSome(nt, rule.part)
    \/ \E w \in rule.whole : HasWord(nt, w)
    \/ rule.road /\ HasRoadNumber(nt)

\* src/unnamed/part_001 483-486 and 512: the tags of a region and the word
\* of the title that rules each out
regionRules ==
    << [word |-> "Piau/", tag |-> "PIAU/"], [word |-> "Teresina", tag |-> "CAPITAL"],
       [word |-> "Brasil", tag |-> "NACIONAL"], [word |-> "interior", tag |-> "INTERIOR"] >>

\* regionCandidates.find(c => !titleWords.has(normalize(c)))
regionCandidates == <<"PIAU/", "CAPITAL", "NACIONAL", "INTERIOR">>

\* src/unnamed/part_001 465-488
deriveChapeuFromTitle(t) ==
    LET nt == Folded(t)
        theme == FirstIndex(LAMBDA k : RuleMatches(themeRules[k], nt), 1, Len(themeRules))
        region == FirstIndex(LAMBDA k : Folded(regionRules[k].word) \notin titleWordsOf(t),
                             1, Len(regionRules))
    IN  IF theme # 0 THEN themeRules[theme].tag
        ELSE IF region # 0 THEN regionRules[region].tag
        ELSE ""

\* part_001 440-442: all.slice(0, 2) without the words of the title,
\* joined
chapeuParts(all, t) ==
    Trim(Join(SelectSeq(SubSeq(all, 1, Min(2, Len(all))),
                        LAMBDA p : Folded(p) \notin titleWordsOf(t))))

\* part_001 443: at most 18 characters
chapeuCut(joined) == IF Len(joined) > 18 THEN Trim(Slice(joined, 0, 18)) ELSE joined

\* part_001 462-464: a token shorter than 3 that the title does not have
hasShortAcronym(tokens, t) ==
    \E k \in 1 .. Len(tokens) : Len(tokens[k]) < 3 /\ tokens[k] \notin titleTokensOf(t)

\* part_001 489-493: the tag derived from the title replaces an empty, a
\* banned or an acronym tag
chapeuFinal(cleanChapeu, derived, t) ==
    LET final == IF /\ \/ cleanChapeu = ""
                       \/ Folded(cleanChapeu) \in banned
                       \/ hasShortAcronym(WordsWs(cleanChapeu), t)
                    /\ derived # ""
                 THEN derived ELSE cleanChapeu
    IN  IF final # "" THEN Returned(final) ELSE FellThrough

\* src/unnamed/part_001 385-507: the try block of generateChapeu
generateChapeuMinimalTry(t, r) ==
    IF ~ResponseOk(r) THEN FellThrough
    ELSE IF r.kind \in {"unparseable", "null", "nochoices", "nonstring"} THEN Thrown
    ELSE chapeuFinal(
             ToUpper(mapPtPtToPtBr(chapeuCut(chapeuParts(
                 WordsWs(Trim(ToUpper(RemoveQuotes(IF r.kind = "text" THEN r.content
                                                   ELSE "")))),
                 t)))),
             deriveChapeuFromTitle(t), t)

\* src/unnamed/part_001 509-516: the fallback led by the title
\* mutant: no fallback, the tag stays empty
regionFallback_Empty(t) == ""
regionFallback(t) ==
    LET region == FirstIndex(LAMBDA k : Folded(regionCandidates[k]) \notin titleWordsOf(t),
                             1, Len(regionCandidates))
    IN  IF region # 0 THEN regionCandidates[region] ELSE "ESPECIAL"

\* generateChapeu of src/unnamed/part_001; catch (error) logs and goes on
generateChapeuMinimal(t, r) ==
    LET attempt == generateChapeuMinimalTry(t, r)
    IN  IF attempt.kind = "return" THEN attempt.value ELSE regionFallback(t)

\* src/server.js 579
allowed ==
    {"DESTAQUE", "URGENTE", "IMPORTANTE", "EXCLUSIVO", "ATEN#$O", "AGORA", "OFICIAL",
     "CONFIRMADO", "NOVIDADE", "%LTIMA HORA", "ULTIMA HORA"}

\* src/server.js 599
fallbacks == <<"DESTAQUE", "NOT/CIA", "IMPORTANTE", "AGORA", "NOVO", "URGENTE", "ATEN#$O">>

\* src/server.js 541-596: the try block of generateChapeu
generateChapeuTry(t, r) ==
    IF ~ResponseOk(r) THEN FellThrough
    ELSE IF r.kind \in {"unparseable", "null", "nochoices", "nonstring"} THEN Thrown
    ELSE IF r.kind \in {"emptychoices", "nocontent"} THEN FellThrough
    ELSE LET ch == ToUpper(Trim(r.content))
             cleanChapeu == StripOuterQuotes(ch)
         IN  IF Len(ch) > 0 /\ Len(ch) <= 12 /\ cleanChapeu \in allowed
             THEN Returned(ToUpper(cleanChapeu))
             ELSE FellThrough

\* generateChapeu of src/server.js: the tags it can return, the fallback
\* being fallbacks[Math.floor(Math.random() * fallbacks.length)]
generateChapeu(t, r) ==
    LET attempt == generateChapeuTry(t, r)
    IN  IF attempt.kind = "return" THEN {attempt.value}
        ELSE {ToUpper(fallbacks[k]) : k \in 1 .. Len(fallbacks)}

ChapeuTitles ==
    {"Sa%de em alerta no Piau/", "Festival de cultura come#a hoje",
     "Governo anuncia nova ponte", "Pol/cia prende suspeito na BR-316",
     "Piau/ Teresina Brasil interior", "Teresina recebe visita de Pedro II",
     "PF  apura\tfraude", ""}

ChapeuTexts ==
    {"", "SA%DE", "\"Obras P%blicas\"", "NOTICIA", "PF", "ACTIVO", "destaque",
     "INFRAESTRUTURA URBANA DE TERESINA", "Visita Real", "ATEN#$O"}

ChapeuReplies ==
    {[kind |-> k, content |-> ""] : k \in ReplyKinds \ {"text"}}
        \cup {[kind |-> "text", content |-> c] : c \in ChapeuTexts}

ChapeuInit ==
    /\ pc = "start"
    /\ title \in ChapeuTitles
    /\ chapeuReply \in ChapeuReplies
    /\ chapeu = ""
    /\ oracle = NoAnswer
    /\ shortener = "none" /\ shortened = "" /\ again = ""
    /\ wordsArr = <<>> /\ boldStart = -1 /\ boldLength = 0
    /\ maxWidth = 0 /\ maxLines = 0 /\ built = <<>>
    /\ DestaqueIdle /\ OracleIdle /\ ColorIdle /\ RouteIdle /\ PublicityIdle /\ PublishIdle /\ StageIdle

\* generateChapeu(title) of src/unnamed/part_001
GenerateChapeuMinimal ==
    /\ pc = "start"
    /\ chapeu' = generateChapeuMinimal(title, chapeuReply)
    /\ pc' = "tagged"
    /\ UNCHANGED <<wrapVars, shortenVars, destaque, oracleVars, colorVars, routeVars,
                   chapeuReply, publicityVars, publishVars, stageVars>>

\* generateChapeu(title) of src/server.js
GenerateChapeu ==
    /\ pc = "start"
    /\ chapeu' \in generateChapeu(title, chapeuReply)
    /\ pc' = "listed"
    /\ UNCHANGED <<wrapVars, shortenVars, destaque, oracleVars, colorVars, routeVars,
                   chapeuReply, publicityVars, publishVars, stageVars>>

ChapeuNext == GenerateChapeuMinimal \/ GenerateChapeu

SpecChapeu == ChapeuInit /\ [][ChapeuNext]_vars

\* the tag policy: not empty, not a banned term, and no word of the tag
\* equal to a word of the title when case and accents are ignored
WithinPolicy(tag, t) ==
    /\ tag # ""
    /\ Folded(tag) \notin banned
    /\ \A k \in 1 .. Len(WordsWs(tag)) : Folded(WordsWs(tag)[k]) \notin titleWordsOf(t)

\* C19: for every title and every answer of the oracle the tag returned by
\* generateChapeu, in either file, is not empty, is not a banned term and
\* repeats no word of the title, case and accents ignored
C19_TagWithinPolicy ==
    pc \in {"tagged", "listed"} => WithinPolicy(chapeu, title)

-----------------------------------------------------------------------------
(* The sponsor card.  One file, publicity-card.jpg, is written by          *)
(* /api/upload-publicity and by getOrCreatePublicityBuffer, read by the    *)
(* latter and removed by /api/delete-publicity.  Each handler runs until   *)
(* its next await; what another request does between two awaits is an     *)
(* interleaving of the steps below.                                        *)

MaxRequests == 3

RequestIds == 1 .. MaxRequests

\* the card generateDefaultPublicityCard makes
DefaultCard == [kind |-> "default", from |-> 0]

\* the card request i uploaded, resized
UploadedCard(i) == [kind |-> "uploaded", from |-> i]

\* fs.existsSync(publicityPath)
existsSync == publicityFile # NoFile

\* a request that has not arrived
NoRequest == [route |-> "none", at |-> "idle", buf |-> NoFile, outcome |-> "none"]

\* the routes that call getOrCreatePublicityBuffer
BufferRoutes == {"get-publicity", "publish-carousel", "publish-instagram"}

PublicityInit ==
    /\ pc = "start"
    /\ publicityFile = NoFile
    /\ requests = [i \in RequestIds |-> NoRequest]
    /\ title = "" /\ oracle = NoAnswer /\ shortener = "none" /\ shortened = "" /\ again = ""
    /\ wordsArr = <<>> /\ boldStart = -1 /\ boldLength = 0
    /\ maxWidth = 0 /\ maxLines = 0 /\ built = <<>>
    /\ DestaqueIdle /\ OracleIdle /\ ColorIdle /\ RouteIdle /\ TagIdle /\ PublishIdle /\ StageIdle

\* what every step of a request leaves alone
PublicityFrame ==
    UNCHANGED <<pc, wrapVars, shortenVars, destaque, oracleVars, colorVars, routeVars,
                tagVars,
                stageVars,
                publishVars>>

At(i, route, at) == requests[i].route = route /\ requests[i].at = at

Goto(i, at) == requests' = [requests EXCEPT ![i].at = at]

Finish(i, outcome) ==
    requests' = [requests EXCEPT ![i].at = "done", ![i].outcome = outcome]

\* src/server.js 350-351: a route calls getOrCreatePublicityBuffer, which
\* awaits fs.ensureDir
CallGetOrCreate(i) ==
    /\ requests[i] = NoRequest
    /\ \E route \in BufferRoutes :
           requests' = [requests EXCEPT ![i].route = route, ![i].at = "ensureDir"]
    /\ UNCHANGED publicityFile
    /\ PublicityFrame

\* src/server.js 352-357: the test for the file, taken after ensureDir
ExistsOrGenerate(i) ==
    /\ requests[i].route \in BufferRoutes
    /\ requests[i].at = "ensureDir"
    /\ IF existsSync THEN Goto(i, "readFile") ELSE Goto(i, "generate")
    /\ UNCHANGED publicityFile
    /\ PublicityFrame

\* src/server.js 354: fs.readFile(publicityPath) completes
ReadFile(i) ==
    /\ requests[i].route \in BufferRoutes
    /\ requests[i].at = "readFile"
    /\ IF existsSync
       THEN requests' = [requests EXCEPT ![i].at = "done", ![i].buf = publicityFile,
                                         ![i].outcome = "success"]
       ELSE Finish(i, "error")
    /\ UNCHANGED publicityFile
    /\ PublicityFrame

\* src/server.js 357-358: generateDefaultPublicityCard has resolved and
\* fs.writeFile is called with its buffer
DefaultGenerated(i) ==
    /\ requests[i].route \in BufferRoutes
    /\ requests[i].at = "generate"
    /\ requests' = [requests EXCEPT ![i].at = "writeFile", ![i].buf = DefaultCard]
    /\ UNCHANGED publicityFile
    /\ PublicityFrame

\* src/server.js 358-359: fs.writeFile(publicityPath, buf) completes and the
\* buffer is returned
WriteDefault(i) ==
    /\ requests[i].route \in BufferRoutes
    /\ requests[i].at = "writeFile"
    /\ publicityFile' = requests[i].buf
    /\ Finish(i, "success")
    /\ PublicityFrame

\* src/server.js 1953-1965: /api/upload-publicity arrives, with or without
\* an image, and awaits fs.ensureDir
UploadPublicity(i) ==
    /\ requests[i] = NoRequest
    /\ \E hasFile \in BOOLEAN :
           IF hasFile
           THEN requests' = [requests EXCEPT ![i].route = "upload-publicity",
                                             ![i].at = "ensureDir"]
           ELSE requests' = [requests EXCEPT ![i].route = "upload-publicity",
                                             ![i].at = "done", ![i].outcome = "error"]
    /\ UNCHANGED publicityFile
    /\ PublicityFrame

\* src/server.js 1965-1970: ensureDir has resolved and sharp resizes the image
UploadResize(i) ==
    /\ At(i, "upload-publicity", "ensureDir")
    /\ Goto(i, "sharp")
    /\ UNCHANGED publicityFile
    /\ PublicityFrame

\* src/server.js 1967-1971: sharp has resolved and fs.writeFile is called
\* with the resized image
UploadResized(i) ==
    /\ At(i, "upload-publicity", "sharp")
    /\ requests' = [requests EXCEPT ![i].at = "writeFile", ![i].buf = UploadedCard(i)]
    /\ UNCHANGED publicityFile
    /\ PublicityFrame

\* src/server.js 1971-1984: fs.writeFile completes, the temporary file is
\* removed and the response sent
UploadWrite(i) ==
    /\ At(i, "upload-publicity", "writeFile")
    /\ publicityFile' = requests[i].buf
    /\ Finish(i, "success")
    /\ PublicityFrame

\* src/server.js 2018-2025: /api/delete-publicity arrives
DeletePublicity(i) ==
    /\ requests[i] = NoRequest
    /\ IF existsSync
       THEN requests' = [requests EXCEPT ![i].route = "delete-publicity",
                                         ![i].at = "unlink"]
       ELSE requests' = [requests EXCEPT ![i].route = "delete-publicity",
                                         ![i].at = "done", ![i].outcome = "error"]
    /\ UNCHANGED publicityFile
    /\ PublicityFrame

\* src/server.js 2022-2027: fs.unlink completes, or fails when the file is gone
DeleteUnlink(i) ==
    /\ At(i, "delete-publicity", "unlink")
    /\ IF existsSync
       THEN publicityFile' = NoFile /\ Finish(i, "success")
       ELSE UNCHANGED publicityFile /\ Finish(i, "error")
    /\ PublicityFrame

PublicityNext ==
    \E i \in RequestIds :
        \/ CallGetOrCreate(i)
        \/ ExistsOrGenerate(i)
        \/ ReadFile(i)
        \/ DefaultGenerated(i)
        \/ WriteDefault(i)
        \/ UploadPublicity(i)
        \/ UploadResize(i)
        \/ UploadResized(i)
        \/ UploadWrite(i)
        \/ DeletePublicity(i)
        \/ DeleteUnlink(i)

SpecPublicity == PublicityInit /\ [][PublicityNext]_vars

\* C20: the writers of the sponsor-card file are serialized: in no
\* interleaving of /api/upload-publicity with getOrCreatePublicityBuffer is
\* a card that an upload stored replaced by the default card
C20_UploadNeverReplacedByDefault ==
    [][publicityFile.kind = "uploaded" => publicityFile'.kind # "default"]_vars

-----------------------------------------------------------------------------
(* One card request from its route to the drawn card: the title, the tag,  *)
(* the caption, then generateInstagramCard with its own tag and emphasis.  *)
(* oracleCalls counts the calls of makeHttpsRequest(GROQ_CONFIG.API_URL)   *)
(* that each stage makes.  The caption's text is the subject of SpecRoute  *)
(* and is not computed again here.                                         *)

\* String(v) of the caller's tag: of an array without elements it is ''
JsToString(v) == IF v.type = "string" THEN v.text ELSE ""

\* src/server.js 973-1001 and part_001 958-985: the emphasis the caller gave
overrideSpan(t, d) ==
    IF d.kind = "indices"
    THEN [boldStart |-> Max(0, d.inicio), boldLength |-> Max(1, d.fim - d.inicio + 1)]
    ELSE LET index == IndexOf(ToLower(t), ToLower(d.text)) - 1
             wordsBeforeDestaque == NonEmpty(Split(Trim(Slice(t, 0, index))))
             palavrasDestaque == NonEmpty(Split(d.text))
             result == findKeywords(t)
         IN  IF index # -1
             THEN [boldStart |-> Len(wordsBeforeDestaque),
                   boldLength |-> Len(palavrasDestaque)]
             ELSE [boldStart |-> result.boldStart, boldLength |-> result.boldLength]

\* part_001 987-1000: the oracle first, findKeywords otherwise
autoSpanMinimal(t, hasKey, r) ==
    SpanOr(generateGroqHighlight(t, hasKey, r), findKeywords(t))

StageFiles == {"server.js", "part_001"}

StageRoutes == {"process-url", "generate-card"}

\* req.body.chapeuPersonalizado || req.body.customChapeu; the object is []
StageTags == {JsUndefined, JsString(""), JsString("obras"), JsObject("Array")}

CardRequests ==
    {[file |-> f, route |-> r, layoutType |-> l, chapeuPersonalizado |-> c,
      hasKey |-> k] :
        f \in StageFiles, r \in StageRoutes, l \in {"layout1", "layout2"},
        c \in StageTags, k \in BOOLEAN}

StageTitles == {"Sa%de em alerta no Piau/", "Pedro II inaugura nova ponte na capital"}

StageTitleReplies ==
    {[kind |-> "nochoices", content |-> ""], [kind |-> "text", content |-> ""],
     [kind |-> "text", content |-> "Nova ponte { inaugurada na capital"]}

StageTagReplies ==
    {[kind |-> "status", content |-> ""], [kind |-> "emptychoices", content |-> ""],
     [kind |-> "text", content |-> "DESTAQUE"], [kind |-> "text", content |-> "SA%DE"],
     [kind |-> "text", content |-> "\"\""]}

StageCaptionReplies ==
    {[kind |-> "transport", content |-> ""], [kind |-> "text", content |-> "..."]}

StageHighlightReplies ==
    {[kind |-> "status", content |-> ""], [kind |-> "unparseable", content |-> ""]}
        \cup {[kind |-> "text", content |-> c] :
                 c \in Suggested("nova ponte") \cup Suggested("ponte velha")}

StageInit ==
    /\ pc = "start"
    /\ cardRequest \in {q \in CardRequests : q.file = "part_001" \/ q.layoutType = "layout1"}
    /\ oracleCalls = NoCalls
    /\ title \in StageTitles
    /\ useManualTitle \in {JsUndefined, JsString("1")}
    /\ cardRequest.route = "process-url" => useManualTitle = JsUndefined
    /\ destaque \in {NoDestaque, [kind |-> "text", inicio |-> 0, fim |-> 0, text |-> "lua"]}
    /\ oracle = NoAnswer /\ shortener = "none" /\ shortened = "" /\ again = ""
    /\ wordsArr = <<>> /\ boldStart = -1 /\ boldLength = 0
    /\ maxWidth = 0 /\ maxLines = 0 /\ built = <<>>
    /\ OracleIdle /\ ColorIdle /\ TagIdle
    /\ optimizeCalls = 0 /\ captionReply = NoReply /\ caption = ""
    /\ PublicityIdle /\ PublishIdle

Called(stage) == oracleCalls' = [oracleCalls EXCEPT ![stage] = @ + 1]

\* the title is typed by the user and used as it is
StageManual == cardRequest.route = "generate-card" /\ IsManual(useManualTitle)

\* src/server.js 1762, 1882-1889 and part_001 2016, 2156-2162: the title
StageTitle ==
    /\ pc = "start"
    /\ IF StageManual
       THEN /\ shortened' = IF cardRequest.file = "server.js" THEN Trim(title)
                            ELSE normalize(title)
            /\ UNCHANGED <<reply, oracleCalls>>
       ELSE IF cardRequest.file = "server.js"
       THEN \E r \in StageTitleReplies :
               /\ reply' = r
               /\ shortened' = optimizeTitleCall(title, r).value
               /\ Called("title")
       ELSE IF cardRequest.hasKey
       THEN \E r \in StageTitleReplies :
               /\ reply' = r
               /\ shortened' = optimizeTitleMinimalCall(title, TRUE, r).value
               /\ Called("title")
       ELSE /\ shortened' = optimizeTitleMinimalCall(title, FALSE, NoReply).value
            /\ UNCHANGED <<reply, oracleCalls>>
    /\ pc' = "st_title"
    /\ UNCHANGED <<title, oracle, shortener, again, wrapVars, destaque, threw, groqHL,
                   colorVars, routeVars, tagVars, publicityVars, publishVars, cardRequest>>

\* src/server.js 1764, 1892: the tag of the route of src/server.js
StageTag ==
    /\ pc = "st_title"
    /\ cardRequest.file = "server.js"
    /\ IF Truthy(cardRequest.chapeuPersonalizado)
       THEN /\ chapeu' = ToUpper(JsToString(cardRequest.chapeuPersonalizado))
            /\ UNCHANGED <<chapeuReply, oracleCalls>>
       ELSE \E r \in StageTagReplies :
               /\ chapeuReply' = r
               /\ \E tag \in generateChapeu(shortened, r) : chapeu' = ToUpper(tag)
               /\ Called("tag")
    /\ pc' = "st_tag"
    /\ UNCHANGED <<wrapVars, shortenVars, destaque, oracleVars, colorVars, routeVars,
                   publicityVars, publishVars, cardRequest>>

\* part_001 2018, 2166-2167: the tag of the route of part_001; toUpperCase of
\* a tag that is no string throws and the route answers with the error
StageTagMinimal ==
    /\ pc = "st_title"
    /\ cardRequest.file = "part_001"
    /\ LET custom == cardRequest.chapeuPersonalizado
           tituloParaChapeu ==
               IF StageManual THEN title ELSE shortened
       IN  IF Truthy(custom) /\ custom.type # "string"
           THEN /\ pc' = "st_error"
                /\ UNCHANGED <<chapeu, chapeuReply, oracleCalls>>
           ELSE IF Truthy(custom)
           THEN /\ chapeu' = ToUpper(custom.text)
                /\ pc' = "st_tag"
                /\ UNCHANGED <<chapeuReply, oracleCalls>>
           ELSE \E r \in StageTagReplies :
                   /\ chapeuReply' = r
                   /\ chapeu' = generateChapeuMinimal(tituloParaChapeu, r)
                   /\ Called("tag")
                   /\ pc' = "st_tag"
    /\ UNCHANGED <<wrapVars, shortenVars, destaque, oracleVars, colorVars, routeVars,
                   publicityVars, publishVars, cardRequest>>

\* src/server.js 1767, 1915 and part_001 2021, 2190: the caption
StageCaption ==
    /\ pc = "st_tag"
    /\ \E r \in StageCaptionReplies : captionReply' = r
    /\ Called("caption")
    /\ pc' = "st_caption"
    /\ UNCHANGED <<wrapVars, shortenVars, destaque, oracleVars, colorVars, tagVars,
                   useManualTitle, optimizeCalls, caption, publicityVars, publishVars, cardRequest>>

\* src/server.js 724, part_001 651 and 1199: chapeu || await generateChapeu(title)
CardTag ==
    /\ pc = "st_caption"
    /\ IF chapeu # ""
       THEN UNCHANGED <<chapeu, chapeuReply, oracleCalls>>
       ELSE \E r \in StageTagReplies :
               /\ chapeuReply' = r
               /\ chapeu' \in (IF cardRequest.file = "server.js"
                               THEN generateChapeu(shortened, r)
                               ELSE {generateChapeuMinimal(shortened, r)})
               /\ Called("tag")
    /\ pc' = "st_card"
    /\ UNCHANGED <<wrapVars, shortenVars, destaque, oracleVars, colorVars, routeVars,
                   publicityVars, publishVars, cardRequest>>

\* part_001 987-1000: the answer of generateGroqHighlight, asked only with a
\* key, before the result of findKeywords
AskHighlight(hl, result) ==
    /\ SpanIs(SpanOr(hl, result))
    /\ IF cardRequest.hasKey
       THEN groqHL' = hl /\ Called("highlight")
       ELSE UNCHANGED <<groqHL, oracleCalls>>

\* src/server.js 1003-1006 and part_001 987-1000: the automatic emphasis
AutomaticEmphasis(result) ==
    IF cardRequest.file = "server.js"
    THEN SpanIs(result) /\ UNCHANGED <<groqHL, oracleCalls>>
    ELSE \E r \in (IF cardRequest.hasKey THEN StageHighlightReplies ELSE {NoReply}) :
            AskHighlight(generateGroqHighlight(shortened, cardRequest.hasKey, r), result)

\* src/server.js 973-1007 and part_001 958-1001: the emphasis of the card
CardEmphasis ==
    /\ pc = "st_card"
    /\ cardRequest.layoutType = "layout1"
    /\ wordsArr' = Split(shortened)
    /\ IF destaque # NoDestaque
       THEN /\ SpanIs(overrideSpan(shortened, destaque))
            /\ UNCHANGED <<groqHL, oracleCalls>>
       ELSE AutomaticEmphasis(findKeywords(shortened))
    /\ pc' = "st_done"
    /\ UNCHANGED <<maxWidth, maxLines, built, shortenVars, destaque, reply, threw,
                   colorVars, routeVars, tagVars, publicityVars, publishVars, cardRequest>>

StageNext ==
    StageTitle \/ StageTag \/ StageTagMinimal \/ StageCaption \/ CardTag \/ CardEmphasis

SpecStages == StageInit /\ [][StageNext]_vars

\* C21: during one card request each stage (title, tag, caption, emphasis)
\* sends at most one request to the oracle, whatever the answers were, and
\* generateInstagramCard does not ask for a tag that the route already asked for
C21_AtMostOneCallPerStage ==
    /\ oracleCalls.title <= 1
    /\ oracleCalls.tag <= 1
    /\ oracleCalls.caption <= 1
    /\ oracleCalls.highlight <= 1

\* a request whose every stage asked the oracle, the tag's answer refused,
\* has reached the end of generateInstagramCard
C21_Witness ==
    /\ pc = "st_done"
    /\ oracleCalls = [title |-> 1, tag |-> 1, caption |-> 1, highlight |-> 1]
    /\ chapeuReply.kind # "text"

-----------------------------------------------------------------------------
\* The scoring search of findKeywords against the windows it scans.

\* the windows <<start, length>> the two loops visit (src/server.js 867-868)
ScannedWindows(words) ==
    {w \in (0 .. Len(words) - 1) \X (2 .. maxHighlightWords(words)) :
        w[2] <= Len(words) - w[1]}

WindowOf(words, w) == SubSeq(words, w[1] + 1, w[1] + w[2])

\* the scanned windows that are valid and have a score above 0
ScoringWindows(words) ==
    {w \in ScannedWindows(words) :
        /\ validSequence(WindowOf(words, w))
        /\ sequenceScore(WindowOf(words, w), w[1]) > 0}

\* v is visited before w: start ascending, then length ascending
ScannedBefore(v, w) == v[1] < w[1] \/ (v[1] = w[1] /\ v[2] < w[2])

\* w has the greatest score of the scoring windows and is the first of
\* those that have it
FirstGreatest(words, w) ==
    /\ w \in ScoringWindows(words)
    /\ \A v \in ScoringWindows(words) :
          LET sv == sequenceScore(WindowOf(words, v), v[1])
              sw == sequenceScore(WindowOf(words, w), w[1])
          IN  sv < sw \/ (sv = sw /\ ~ScannedBefore(v, w))

\* C22: when the scoring search of findKeywords selects a span, it is the
\* valid window of the greatest score among the windows of length 2 up to
\* max(2, floor(0.3 x word count)), the first in scan order among those of
\* that score; a valid window of score 0 is never selected by the search
C22_FirstGreatestWindow ==
    pc = "found" =>
      IF ScoringWindows(wordsArr) # {}
      THEN FirstGreatest(wordsArr, <<boldStart, boldLength>>)
      ELSE bestWindow(wordsArr)[1] = -1

\* the search selected the first of two windows of the greatest score
C22_Witness ==
    /\ pc = "found"
    /\ FirstGreatest(wordsArr, <<boldStart, boldLength>>)
    /\ \E v \in ScoringWindows(wordsArr) :
          /\ v # <<boldStart, boldLength>>
          /\ sequenceScore(WindowOf(wordsArr, v), v[1])
                = sequenceScore(SubSeq(wordsArr, boldStart + 1, boldStart + boldLength),
                                boldStart)

-----------------------------------------------------------------------------
\* The span findKeywords returns, from the search or from the fallback.

\* src/server.js 903: a word of no information
LowInformation(word) ==
    wordScore(word) = 0 /\ Len(word) < 4 /\ ~isRomanNumeral(word)

\* the words of the span returned
SpanWords == SubSeq(wordsArr, boldStart + 1, boldStart + boldLength)

\* C23: whenever findKeywords returns a span, chosen by the scoring search or
\* by the fallback of adjacent pairs, its first and its last word are no stop
\* words and it is no window that the scoring search disqualified for a
\* low-information short word (shorter than 4, no Roman numeral, score 0)
C23_SpanNeverDisqualified ==
    (pc = "found" /\ boldStart >= 0) =>
      /\ ~isStopWord(SpanWords[1])
      /\ ~isStopWord(SpanWords[Len(SpanWords)])
      /\ \A i \in 1 .. Len(SpanWords) :
            ~(~isStopWord(SpanWords[i]) /\ LowInformation(SpanWords[i]))

-----------------------------------------------------------------------------
(* The emphasis of a card for a headline, with or without an emphasis of   *)
(* the caller's, in both files.  reply is what the emphasis oracle answers *)
(* for the headline when it is asked.                                      *)

FallthroughDestaques ==
    {NoDestaque}
        \cup {[kind |-> "text", inicio |-> 0, fim |-> 0, text |-> t] :
                 t \in {"PEDRO ii", "lua", "capital federal"}}
        \cup {d \in IndexDestaques : d.inicio \in 0 .. 2 /\ d.fim \in 0 .. 2}

FallthroughHeadlines == {ScenarioPedro, "Pedro II nova ponte", "sol"}

FallthroughReplies ==
    {[kind |-> "status", content |-> ""]}
        \cup {[kind |-> "text", content |-> c] : c \in {"\"nova ponte\"", ""}}

FallthroughInit ==
    /\ pc = "start"
    /\ title \in FallthroughHeadlines
    /\ destaque \in FallthroughDestaques
    /\ cardRequest \in {q \in CardRequests :
                          /\ q.route = "generate-card" /\ q.layoutType = "layout1"
                          /\ q.chapeuPersonalizado = JsUndefined
                          /\ q.file = "server.js" => ~q.hasKey}
    /\ reply \in (IF cardRequest.file = "part_001" /\ cardRequest.hasKey
                  THEN FallthroughReplies ELSE {NoReply})
    /\ oracleCalls = NoCalls
    /\ threw = FALSE /\ groqHL = NullHighlight
    /\ oracle = NoAnswer /\ shortener = "none" /\ shortened = "" /\ again = ""
    /\ wordsArr = <<>> /\ boldStart = -1 /\ boldLength = 0
    /\ maxWidth = 0 /\ maxLines = 0 /\ built = <<>>
    /\ ColorIdle /\ RouteIdle /\ TagIdle /\ PublicityIdle /\ PublishIdle

\* src/server.js 968-1007: the emphasis of generateInstagramCard
SelectEmphasis ==
    /\ pc = "start"
    /\ cardRequest.file = "server.js"
    /\ wordsArr' = Split(title)
    /\ SpanIs(IF destaque # NoDestaque THEN overrideSpan(title, destaque)
              ELSE findKeywords(title))
    /\ pc' = "selected"
    /\ UNCHANGED <<maxWidth, maxLines, built, shortenVars, destaque, oracleVars, colorVars,
                   routeVars, tagVars, publicityVars, publishVars, stageVars>>

\* part_001 953-1001: the emphasis of generateInstagramCard, the oracle
\* being asked only when the caller gave no emphasis
SelectEmphasisMinimal ==
    /\ pc = "start"
    /\ cardRequest.file = "part_001"
    /\ wordsArr' = Split(title)
    /\ IF destaque # NoDestaque
       THEN /\ SpanIs(overrideSpan(title, destaque))
            /\ UNCHANGED <<groqHL, oracleCalls>>
       ELSE /\ SpanIs(autoSpanMinimal(title, cardRequest.hasKey, reply))
            /\ groqHL' = generateGroqHighlight(title, cardRequest.hasKey, reply)
            /\ oracleCalls' = IF cardRequest.hasKey
                              THEN [oracleCalls EXCEPT !.highlight = @ + 1]
                              ELSE oracleCalls
    /\ pc' = "selected"
    /\ UNCHANGED <<maxWidth, maxLines, built, shortenVars, destaque, reply, threw,
                   colorVars, routeVars, tagVars, publicityVars, publishVars, cardRequest>>

FallthroughNext == SelectEmphasis \/ SelectEmphasisMinimal

SpecFallthrough == FallthroughInit /\ [][FallthroughNext]_vars

\* the span of automatic selection for the headline in the file that serves
\* the request, the oracle asked first where the file has one
AutomaticSpan ==
    IF cardRequest.file = "part_001"
    THEN autoSpanMinimal(title, cardRequest.hasKey, reply)
    ELSE findKeywords(title)

\* C24: when the caller's emphasis is a text that does not occur in the
\* headline, the span used is the span automatic selection gives for the
\* same headline with no emphasis of the caller's, the oracle asked first
\* where it is configured
C24_MissingTextFallsToAutomatic ==
    (/\ pc = "selected"
     /\ destaque.kind = "text"
     /\ ~Includes(ToLower(title), ToLower(destaque.text)))
    => /\ boldStart = AutomaticSpan.boldStart
       /\ boldLength = AutomaticSpan.boldLength

-----------------------------------------------------------------------------
(* The "nomeado" ending of src/server.js: finalizeHeadline 462-523 and     *)
(* fixNominationEndings 526-537, as optimizeTitle 439-440 and 456-457      *)
(* applies them                                                            *)

\* the text optimizeTitle hands to finalizeHeadline: the oracle's answer
\* without its outer quotes, or the headline in the fallback
FinalizedText ==
    IF oracle.ok /\ Len(Trim(oracle.content)) > 0
    THEN StripOuterQuotes(Trim(oracle.content))
    ELSE title

\* finalizeHeadline after step 4, the cut by whole words to the budget
PackedHeadline(text, maxLength) ==
    PackWords(RemoveRounds(CutAtSplitter(Trim(CollapseSpaces(RemoveEllipses(text))),
                                         maxLength, 1),
                           maxLength, 1),
              maxLength)

\* text.endsWith(suffix)
EndsWith(text, suffix) ==
    /\ Len(text) >= Len(suffix)
    /\ SubSeq(text, Len(text) - Len(suffix) + 1, Len(text)) = suffix

\* C25: when the headline, after the cut by whole words to the budget, ends
\* with the bare participle "nomeado" or "nomeada", the title optimizeTitle
\* returns ends with "assume cargo"
C25_NomeadoBecomesAssumeCargo ==
    (/\ pc = "done"
     /\ shortener = "optimizeTitle"
     /\ EndsInNomeado(PackedHeadline(FinalizedText, TitleBudget)))
    => EndsWith(shortened, "assume cargo")

-----------------------------------------------------------------------------
(* Publishing of src/server.js and src/unnamed/part_001 (the two files     *)
(* hold the same functions): publishToInstagram 1168-1253 / 1390-1475,     *)
(* publishCarouselToInstagram 2032-2140 / 2312-2420, the routes            *)
(* /api/publish-carousel and /api/publish-instagram 2143-2208 / 2423-2511, *)
(* and the image /api/process-url downloads, server.js 1769-1815.          *)
(* Requests run concurrently; each action is the code of one request from  *)
(* one await to the next.  The clock is the value Date.now() returns; it   *)
(* may stand still between two reads.                                      *)

MaxPublishers == 2

MaxClock == 1

PublisherIds == 1 .. MaxPublishers

\* images.length: the routes pass the news card and the sponsor card
CarouselImages == 2

PublishKinds == {"carousel", "single", "extract"}

\* what a request to the Graph API comes to: a 2xx answer with an id, an
\* answer whose body carries error.message, or a failure without one (a
\* transport error, or a non-2xx status with another body)
GraphReplies == {"ok", "error", "refused"}

GraphMessage == "Invalid OAuth access token"

\* no response sent yet
NoRes == [sent |-> FALSE, success |-> FALSE, error |-> ""]

IdlePublisher ==
    [kind |-> "none", at |-> "idle", i |-> 0, tempFiles |-> <<>>, mediaIds |-> <<>>,
     carouselId |-> 0, error |-> "", res |-> NoRes]

\* `${n}` of a small number
NumberToString(n) == SubSeq("0123456789", n + 1, n + 1)

\* path.join(publicDir, `carousel_${Date.now()}_${i + 1}.png`)
carouselPath(t, i) ==
    "public/uploads/carousel_" \o NumberToString(t) \o "_" \o NumberToString(i) \o ".png"

\* path.join(publicDir, `post_${Date.now()}.png`)
postPath(t) == "public/uploads/post_" \o NumberToString(t) \o ".png"

\* path.join(__dirname, 'uploads', `extracted_${Date.now()}.jpg`)
extractedPath(t) == "uploads/extracted_" \o NumberToString(t) \o ".jpg"

\* the ids the Graph API gives: one per container, all different
ItemId(r, i) == 10 * r + i

CarouselId(r) == 10 * r

\* fs.writeFile(filepath, buffer) by request r
writeFile(files, path, r) ==
    {f \in files : f.path # path} \cup {[path |-> path, owner |-> r]}

\* fs.unlink(filepath), an absent file being no error to the callers
unlink(files, path) == {f \in files : f.path # path}

\* mutant: the loop deletes nothing
unlinkAll_Keep(files, paths) == files

\* for (const f of tempFiles) { try { await fs.unlink(f); } catch {} }
unlinkAll(files, paths) ==
    {f \in files : \A k \in 1 .. Len(paths) : f.path # paths[k]}

\* mutant: no answer counts as a failure
Failed_Never(graphReply) == FALSE

\* !response.ok || data.error
Failed(graphReply) == graphReply # "ok"

\* data.error?.message || fallback
MessageOr(graphReply, fallback) ==
    IF graphReply = "error" THEN GraphMessage ELSE fallback

PublishInit ==
    /\ pc = "start"
    /\ now = 0
    /\ publishers = [r \in PublisherIds |-> IdlePublisher]
    /\ diskFiles = {}
    /\ timers = {}
    /\ graphLog = [r \in PublisherIds |-> <<>>]
    /\ title = "" /\ oracle = NoAnswer /\ shortener = "none" /\ shortened = "" /\ again = ""
    /\ wordsArr = <<>> /\ boldStart = -1 /\ boldLength = 0
    /\ maxWidth = 0 /\ maxLines = 0 /\ built = <<>>
    /\ DestaqueIdle /\ OracleIdle /\ ColorIdle /\ RouteIdle /\ TagIdle /\ PublicityIdle
    /\ StageIdle

PublishFrame ==
    UNCHANGED <<pc, wrapVars, shortenVars, destaque, oracleVars, colorVars, routeVars,
                tagVars, publicityVars, stageVars>>

Publisher(r, kind, at) == publishers[r].kind = kind /\ publishers[r].at = at

\* the record of request r with the fields of the function changed
Becomes(r, changes) ==
    publishers' = [publishers EXCEPT ![r] =
                      [f \in DOMAIN publishers[r] |->
                          IF f \in DOMAIN changes THEN changes[f] ELSE publishers[r][f]]]

\* the request to the Graph API is sent and answered
Logged(r, entry) == graphLog' = [graphLog EXCEPT ![r] = Append(@, entry)]

\* Date.now() moves on
Tick ==
    /\ now < MaxClock
    /\ now' = now + 1
    /\ UNCHANGED <<publishers, diskFiles, timers, graphLog>>
    /\ PublishFrame

\* a request comes in: /api/publish-carousel or /api/publish-instagram with
\* a card and a caption, or /api/process-url up to the download
Arrive(r) ==
    /\ publishers[r].at = "idle"
    /\ \E kind \in PublishKinds :
          Becomes(r, [kind |-> kind, at |-> "write", i |-> 1])
    /\ UNCHANGED <<now, diskFiles, timers, graphLog>>
    /\ PublishFrame

\* publishCarouselToInstagram 2046-2054: the file of image i is named after
\* the clock and written
CarouselWrite(r) ==
    /\ Publisher(r, "carousel", "write")
    /\ LET filepath == carouselPath(now, publishers[r].i)
       IN  /\ diskFiles' = writeFile(diskFiles, filepath, r)
           /\ Becomes(r, [at |-> "item",
                          tempFiles |-> Append(publishers[r].tempFiles, filepath)])
    /\ UNCHANGED <<now, timers, graphLog>>
    /\ PublishFrame

\* 2056-2080: the container of image i is requested; on a failure the loop
\* stops for the cleanup, otherwise the id is kept and the loop goes on
CarouselItem(r) ==
    /\ Publisher(r, "carousel", "item")
    /\ \E graphReply \in GraphReplies :
          LET i == publishers[r].i
              id == ItemId(r, i)
          IN  /\ Logged(r, [op |-> "item", image |-> i,
                            url |-> publishers[r].tempFiles[i], children |-> <<>>,
                            creation |-> 0, reply |-> graphReply, id |-> id])
              /\ IF Failed(graphReply)
                 THEN Becomes(r, [at |-> "cleanup",
                                  error |-> "Erro no container " \o NumberToString(i) \o ": "
                                            \o MessageOr(graphReply,
                                                         "Falha ao criar container")])
                 ELSE Becomes(r, [at |-> IF i < CarouselImages THEN "write" ELSE "carousel",
                                  i |-> i + 1,
                                  mediaIds |-> Append(publishers[r].mediaIds, id)])
    /\ UNCHANGED <<now, diskFiles, timers>>
    /\ PublishFrame

\* 2085-2102: the carousel container is requested with the children
CarouselContainer(r) ==
    /\ Publisher(r, "carousel", "carousel")
    /\ \E graphReply \in GraphReplies :
          /\ Logged(r, [op |-> "carousel", image |-> 0, url |-> "",
                        children |-> publishers[r].mediaIds, creation |-> 0,
                        reply |-> graphReply, id |-> CarouselId(r)])
          /\ IF Failed(graphReply)
             THEN Becomes(r, [at |-> "cleanup",
                              error |-> "Erro no carrossel: "
                                        \o MessageOr(graphReply, "Falha ao criar carrossel")])
             ELSE Becomes(r, [at |-> "publish", carouselId |-> CarouselId(r)])
    /\ UNCHANGED <<now, diskFiles, timers>>
    /\ PublishFrame

\* 2105-2134: media_publish is requested; on success the deletion of the
\* files is scheduled and the result returned to the route, which answers
CarouselPublish(r) ==
    /\ Publisher(r, "carousel", "publish")
    /\ \E graphReply \in GraphReplies :
          /\ Logged(r, [op |-> "publish", image |-> 0, url |-> "", children |-> <<>>,
                        creation |-> publishers[r].carouselId, reply |-> graphReply,
                        id |-> 0])
          /\ IF Failed(graphReply)
             THEN /\ Becomes(r, [at |-> "cleanup",
                                 error |-> "Erro na publica#$o: "
                                           \o MessageOr(graphReply, "Falha ao publicar")])
                  /\ UNCHANGED timers
             ELSE /\ Becomes(r, [at |-> "answered",
                                 res |-> [sent |-> TRUE, success |-> TRUE, error |-> ""]])
                  /\ timers' = timers \cup
                                 {[owner |-> r, paths |-> publishers[r].tempFiles]}
    /\ UNCHANGED <<now, diskFiles>>
    /\ PublishFrame

\* 2075, 2100, 2118: the files written so far are deleted, then the error
\* is thrown
CarouselCleanup(r) ==
    /\ Publisher(r, "carousel", "cleanup")
    /\ diskFiles' = unlinkAll(diskFiles, publishers[r].tempFiles)
    /\ Becomes(r, [at |-> "thrown"])
    /\ UNCHANGED <<now, timers, graphLog>>
    /\ PublishFrame

\* publishToInstagram 1178-1183: the file is named after the clock and
\* written
SingleWrite(r) ==
    /\ Publisher(r, "single", "write")
    /\ LET filepath == postPath(now)
       IN  /\ diskFiles' = writeFile(diskFiles, filepath, r)
           /\ Becomes(r, [at |-> "media", tempFiles |-> <<filepath>>])
    /\ UNCHANGED <<now, timers, graphLog>>
    /\ PublishFrame

\* 1189-1212: the container is requested; a failure is thrown as it is
SingleMedia(r) ==
    /\ Publisher(r, "single", "media")
    /\ \E graphReply \in GraphReplies :
          /\ Logged(r, [op |-> "media", image |-> 1, url |-> publishers[r].tempFiles[1],
                        children |-> <<>>, creation |-> 0, reply |-> graphReply,
                        id |-> ItemId(r, 1)])
          /\ IF Failed(graphReply)
             THEN Becomes(r, [at |-> "thrown",
                              error |-> MessageOr(graphReply, "Erro ao criar container")])
             ELSE Becomes(r, [at |-> "publish", mediaIds |-> <<ItemId(r, 1)>>])
    /\ UNCHANGED <<now, diskFiles, timers>>
    /\ PublishFrame

\* 1214-1246: after the pause media_publish is requested; on success the
\* deletion of the file is scheduled and the route answers
SinglePublish(r) ==
    /\ Publisher(r, "single", "publish")
    /\ \E graphReply \in GraphReplies :
          /\ Logged(r, [op |-> "publish", image |-> 0, url |-> "", children |-> <<>>,
                        creation |-> publishers[r].mediaIds[1], reply |-> graphReply,
                        id |-> 0])
          /\ IF Failed(graphReply)
             THEN /\ Becomes(r, [at |-> "thrown",
                                 error |-> MessageOr(graphReply, "Erro ao publicar")])
                  /\ UNCHANGED timers
             ELSE /\ Becomes(r, [at |-> "answered",
                                 res |-> [sent |-> TRUE, success |-> TRUE, error |-> ""]])
                  /\ timers' = timers \cup
                                 {[owner |-> r, paths |-> publishers[r].tempFiles]}
    /\ UNCHANGED <<now, diskFiles>>
    /\ PublishFrame

\* the catch of the function rethrows, and the catch of the route answers
\* success: false with the message of the error
RouteCatch(r) ==
    /\ publishers[r].kind \in {"carousel", "single"}
    /\ publishers[r].at = "thrown"
    /\ Becomes(r, [at |-> "answered",
                   res |-> [sent |-> TRUE, success |-> FALSE,
                            error |-> publishers[r].error]])
    /\ UNCHANGED <<now, diskFiles, timers, graphLog>>
    /\ PublishFrame

\* the callback of setTimeout: the files of the publication are deleted
TimerFires ==
    /\ \E timer \in timers :
          /\ diskFiles' = unlinkAll(diskFiles, timer.paths)
          /\ timers' = timers \ {timer}
    /\ UNCHANGED <<now, publishers, graphLog>>
    /\ PublishFrame

\* /api/process-url 1778-1781: the downloaded image is named after the
\* clock and written
ExtractWrite(r) ==
    /\ Publisher(r, "extract", "write")
    /\ LET filepath == extractedPath(now)
       IN  /\ diskFiles' = writeFile(diskFiles, filepath, r)
           /\ Becomes(r, [at |-> "card", tempFiles |-> <<filepath>>])
    /\ UNCHANGED <<now, timers, graphLog>>
    /\ PublishFrame

\* 1788-1814: the card is generated or not, the image is deleted, and the
\* route answers
ExtractCard(r) ==
    /\ Publisher(r, "extract", "card")
    /\ diskFiles' = unlink(diskFiles, publishers[r].tempFiles[1])
    /\ \E generated \in BOOLEAN :
          Becomes(r, [at |-> "answered",
                      res |-> [sent |-> TRUE, success |-> generated,
                               error |-> IF generated THEN "" ELSE "card"]])
    /\ UNCHANGED <<now, timers, graphLog>>
    /\ PublishFrame

PublisherStep(r) ==
    \/ CarouselWrite(r) \/ CarouselItem(r) \/ CarouselContainer(r) \/ CarouselPublish(r)
    \/ CarouselCleanup(r)
    \/ SingleWrite(r) \/ SingleMedia(r) \/ SinglePublish(r)
    \/ RouteCatch(r)
    \/ ExtractWrite(r) \/ ExtractCard(r)

PublishNext ==
    \/ Tick
    \/ TimerFires
    \/ \E r \in PublisherIds : Arrive(r) \/ PublisherStep(r)

SpecPublish == PublishInit /\ [][PublishNext]_vars

\* the Graph API requests of a carousel in the order of the function: the
\* items in image order, the carousel container with the ids of the items
\* in that order, media_publish with the id of the carousel; each after the
\* one before it succeeded
InCarouselOrder(log) ==
    /\ Len(log) <= CarouselImages + 2
    /\ \A k \in 1 .. Len(log) :
          /\ k > 1 => log[k - 1].reply = "ok"
          /\ k <= CarouselImages => log[k].op = "item" /\ log[k].image = k
          /\ k = CarouselImages + 1 =>
                /\ log[k].op = "carousel"
                /\ log[k].children = [j \in 1 .. CarouselImages |-> log[j].id]
          /\ k = CarouselImages + 2 =>
                /\ log[k].op = "publish"
                /\ log[k].creation = log[k - 1].id

\* C26: publishCarouselToInstagram sends one item-container request per
\* image in image order, each after the one before succeeded, then one
\* carousel-container request whose children are the item ids in image
\* order, then one media_publish request with the carousel id; media_publish
\* is not sent after a failure, and success is answered only after
\* media_publish succeeded
C26_GraphCallsInOrder ==
    \A r \in PublisherIds :
        publishers[r].kind = "carousel" =>
            /\ InCarouselOrder(graphLog[r])
            /\ publishers[r].res.success =>
                  /\ Len(graphLog[r]) = CarouselImages + 2
                  /\ graphLog[r][CarouselImages + 2].reply = "ok"

C26_Witness ==
    \E r \in PublisherIds :
        /\ publishers[r].kind = "carousel"
        /\ publishers[r].res.success
        /\ \E q \in PublisherIds :
              /\ publishers[q].kind = "carousel"
              /\ publishers[q].at = "answered"
              /\ Len(graphLog[q]) = CarouselImages
              /\ graphLog[q][CarouselImages].reply = "error"

\* the last request of r to the Graph API failed
GraphFailed(r) ==
    /\ Len(graphLog[r]) > 0
    /\ Failed(graphLog[r][Len(graphLog[r])].reply)

\* the files on disk that request r wrote
WrittenBy(r) == {f \in diskFiles : f.owner = r}

InFlight(r) == publishers[r].at \notin {"idle", "answered"}

\* the paths request r has written to and not yet given up
PathsOf(r) == {publishers[r].tempFiles[k] : k \in 1 .. Len(publishers[r].tempFiles)}

\* C29: two requests in flight at the same time never use the same
\* temporary file path (extracted_<time>.jpg, post_<time>.png,
\* carousel_<time>_<i>.png), also when both read the same clock value, so
\* that neither overwrites nor deletes a file of the other
C29_NoSharedTempPath ==
    \A r, q \in PublisherIds :
        (r # q /\ InFlight(r) /\ InFlight(q)) => PathsOf(r) \cap PathsOf(q) = {}

\* Every request goes on from each await (the event loop runs what is
\* ready), and a timer that was set runs; no request need come in, and the
\* clock need not move
SpecPublishFair ==
    /\ PublishInit
    /\ [][PublishNext]_vars
    /\ \A r \in PublisherIds : WF_vars(PublisherStep(r))
    /\ WF_vars(TimerFires)

\* the paths the publish functions write to under public/uploads
PublicPaths ==
    {postPath(t) : t \in 0 .. MaxClock}
        \cup {carouselPath(t, i) : t \in 0 .. MaxClock, i \in 1 .. CarouselImages}

OnDisk(path) == \E f \in diskFiles : f.path = path

\* C28: every image file a publish operation writes under public/uploads
\* is deleted in the end, whether the publication succeeds (by the timer)
\* or fails at any step
C28_EveryFileEventuallyDeleted ==
    \A path \in PublicPaths : OnDisk(path) ~> ~OnDisk(path)

-----------------------------------------------------------------------------
(* The emphasis flags of the wrapper's output, server.js 1024-1096         *)

\* the word at 0-based index k of the input lies in the emphasis span
InSpan(k) == k >= boldStart /\ k < boldStart + boldLength

\* C30: every word object wrapWordsToWidth returns carries the text of the
\* input word at its place and is emphasized exactly when that index lies
\* in [boldStart, boldStart + boldLength); a word moved between lines keeps
\* its text and its flag
C30_FlagsFollowSpan ==
    pc = "done" =>
      LET out == Flatten(built)
      IN  \A k \in 1 .. Len(out) :
              /\ k <= Len(wordsArr)
              /\ out[k].text = wordsArr[k]
              /\ out[k].isBold = InSpan(k - 1)

\* the widow repair has moved an emphasized word to the next line
C30_Witness ==
    /\ pc = "done"
    /\ LET greedy == GreedyPack(wordsArr, boldStart, boldLength, maxWidth, maxLines)
       IN  \E i \in 2 .. Len(built) :
              /\ Len(greedy) >= i
              /\ Len(greedy[i]) = 1
              /\ Len(built[i]) = 2
              /\ built[i][1].isBold
              /\ ~built[i][2].isBold

=============================================================================
